---- MODULE Spec2Model ----
(***************************************************************************)
(* The landmark-to-metric geometry engine of horizon-mediapipe-py          *)
(* (golden.py): analyze_face_ratios, FaceAnalyzer and its region           *)
(* analyzers, as a state machine that runs one analysis call step by step. *)
(*                                                                         *)
(* Numbers.  Coordinates are exact rationals N / unit: a raw landmark      *)
(* coordinate is N / Grid (Grid = 2 * Center, so 0.5 is Center / Grid),    *)
(* and roll correction multiplies the denominator (see                     *)
(* _apply_roll_correction).  Confidence values are in hundredths           *)
(* (0.3 is 30).  dist returns the SQUARE of the Euclidean distance in      *)
(* unit^2, so that no square root is taken except for the two lengths the  *)
(* code stores as a number (the scale basis candidates), whose inputs are  *)
(* chosen with integral length.  Every nonzero length on this lattice is   *)
(* at least 1 / unit with unit < 10^8, hence |v| < 1e-8 holds exactly when *)
(* v = 0 and v > 1e-8 exactly when v > 0.                                  *)
(*                                                                         *)
(* A metric value is a record [k, v]: k names the closed form the code     *)
(* evaluates and v its exact integer arguments in lowest terms, so two     *)
(* values are equal when the code computes the same real number; k =       *)
(* "None" is Python's None and k = "nan" a non-finite float.               *)
(***************************************************************************)
EXTENDS Integers, Sequences, FiniteSets, TLC

\* ---------------------------------------------------------------- bounds
\* largest number of landmarks whose confidence is lowered at once
MaxLow == 1
\* largest number of landmarks moved onto another landmark at once
MaxCollapse == 1
\* ratios handed to the phi deviation are the multiples n * PHI / PhiSteps,
\* n in 0 .. 2 * PhiSteps
PhiSteps == 60

\* ------------------------------------------------------ program constants
\* the midline x = 0.5 (golden.py:459) in grid units
Center == 8
Grid == 2 * Center
\* self.visibility_threshold = 0.3, in hundredths
visibility_threshold == 30
\* default of lm.get('visibility', 1.0) / lm.get('presence', 1.0), in hundredths
DefaultConfidence == 100
\* blendshape activity threshold 0.1, in hundredths
ActiveScore == 10
\* divisor of the midline symmetry score
SymmetryDivisor == 5

None == <<>>

Names ==
  { "chin_tip", "nose_tip", "subnasale", "L_eye_outer", "L_eye_inner",
    "R_eye_inner", "R_eye_outer", "L_brow_inner", "R_brow_inner",
    "L_brow_outer", "R_brow_outer", "alare_L", "alare_R",
    "labiale_superius", "labiale_inferius", "stomion", "cheilion_L",
    "cheilion_R", "L_pupil", "R_pupil", "gonion_L", "gonion_R", "menton",
    "trichion", "nasion", "L_ear_top", "R_ear_top", "L_cheek", "R_cheek" }

FALLBACK_INDICES ==
  [ chin_tip |-> 152, nose_tip |-> 4, subnasale |-> 2, L_eye_outer |-> 33,
    L_eye_inner |-> 133, R_eye_inner |-> 362, R_eye_outer |-> 263,
    L_brow_inner |-> 70, R_brow_inner |-> 336, L_brow_outer |-> 105,
    R_brow_outer |-> 334, alare_L |-> 234, alare_R |-> 454,
    labiale_superius |-> 13, labiale_inferius |-> 14, stomion |-> 0,
    cheilion_L |-> 61, cheilion_R |-> 291, L_pupil |-> 468,
    R_pupil |-> 473, gonion_L |-> 172, gonion_R |-> 397, menton |-> 175,
    trichion |-> 10, nasion |-> 6, L_ear_top |-> 93, R_ear_top |-> 323,
    L_cheek |-> 205, R_cheek |-> 425 ]

\* ------------------------------------------------------------ arithmetic
Abs(a) == IF a < 0 THEN -a ELSE a

RECURSIVE GCD(_, _)
GCD(a, b) == IF b = 0 THEN a ELSE GCD(b, a % b)

RECURSIVE GCDSeq(_)
GCDSeq(s) == IF s = <<>> THEN 0 ELSE GCD(Abs(Head(s)), GCDSeq(Tail(s)))

\* the tuple s divided by the greatest common divisor of its entries
Lowest(s) ==
  LET g == GCDSeq(s)
  IN  IF g = 0 THEN s ELSE [i \in DOMAIN s |-> s[i] \div g]

\* the exact square root of a perfect square
ISqrt(n) == CHOOSE s \in 0..n : s * s = n

\* a number computed by closed form k from the integers args; positive
\* homogeneous forms (ratios, directions) are reduced to lowest terms
Num(k, args) == [k |-> k, v |-> Lowest(args)]
NoneValue == [k |-> "None", v |-> <<>>]
NaN == [k |-> "nan", v |-> <<>>]
NegInf == [k |-> "-inf", v |-> <<>>]
\* the rational a / b, b > 0
Rat(a, b) == Num("rat", <<a, b>>)
One == Rat(1, 1)

\* --------------------------------------------------- Python list indexing
\* a[idx] raises IndexError outside -len(a) .. len(a) - 1
InRange(a, idx) == -Len(a) <= idx /\ idx < Len(a)
At(a, idx) == IF idx >= 0 THEN a[idx + 1] ELSE a[Len(a) + idx + 1]

\* dict.get(name) and dict.get(name, default); found = FALSE is None
DictGet(d, name) ==
  IF name \in DOMAIN d THEN [found |-> TRUE, idx |-> d[name]]
  ELSE [found |-> FALSE, idx |-> 0]
DictGetDefault(d, name, default) ==
  IF name \in DOMAIN d THEN d[name] ELSE default

\* ------------------------------------------------------- module functions
\* dist(p1, p2, '2D') squared, and dist(p1, p2) in three dimensions squared
dist(p1, p2, mode) ==
  IF mode = "2D"
  THEN (p1[1] - p2[1]) * (p1[1] - p2[1]) + (p1[2] - p2[2]) * (p1[2] - p2[2])
  ELSE (p1[1] - p2[1]) * (p1[1] - p2[1]) + (p1[2] - p2[2]) * (p1[2] - p2[2])
       + (p1[3] - p2[3]) * (p1[3] - p2[3])

\* safe_ratio(num, denom) on the squares of num and denom: None when
\* |denom| < eps, else num / denom = sqrt(numSq / denomSq)
safe_ratio(numSq, denomSq) ==
  IF denomSq = 0 THEN NoneValue ELSE Num("sqrt", <<numSq, denomSq>>)

\* angle_deg(p1, vertex, p2): arccos of the clipped normalised dot product
\* of the full three-component edge vectors (eps added to the denominator)
angle_deg(p1, vertex, p2, unit) ==
  Num("angle_deg", << p1[1] - vertex[1], p1[2] - vertex[2], p1[3] - vertex[3],
                      p2[1] - vertex[1], p2[2] - vertex[2], p2[3] - vertex[3],
                      unit >>)

\* polyfit_curvature(points): |2 * leading coefficient| of the degree-2 fit
\* through three (x, y) points; any failure of the fit yields 0.0
polyfit_curvature(pts, unit) ==
  Num("polyfit2", << pts[1][1], pts[1][2], pts[2][1], pts[2][2],
                     pts[3][1], pts[3][2], unit >>)

create_metric(value, method, source_points, valid, confidence) ==
  [ value |-> value, method |-> method, source_points |-> source_points,
    valid |-> valid, confidence |-> confidence ]

\* the defaults valid = True, confidence = 1.0 (in hundredths)
Metric(value, method, source_points) ==
  create_metric(value, method, source_points, TRUE, 100)

\* ------------------------------------------------- FaceAnalyzer.__init__
\* a landmark record from which lm['x'], lm['y'], lm['z'] can be read
WellFormed(lm) == {"x", "y", "z"} \subseteq DOMAIN lm

\* lm.get(key, 1.0)
Confidence(lm, key) == IF key \in DOMAIN lm THEN lm[key] ELSE DefaultConfidence

AllZero(a) == \A i \in DOMAIN a : a[i] = 0

\* a rotation by plus the angle of the eye line (the transposed matrix)
RollBodyTransposed(points, unit, index_map) ==
  LET li == DictGetDefault(index_map, "L_eye_outer", 33)
      ri == DictGetDefault(index_map, "R_eye_outer", 263)
  IN  IF ~InRange(points, li) \/ ~InRange(points, ri)
      THEN [exc |-> TRUE, points |-> points, unit |-> unit]
      ELSE LET left_eye == At(points, li)
               right_eye == At(points, ri)
               dx == right_eye[1] - left_eye[1]
               dy == right_eye[2] - left_eye[2]
               csh == Lowest(<<dx, dy, ISqrt(dx * dx + dy * dy)>>)
               c == csh[1]
               s == csh[2]
               h == csh[3]
           IN  IF h = 0
               THEN [exc |-> FALSE, points |-> points, unit |-> unit]
               ELSE [ exc |-> FALSE,
                      points |-> [ i \in DOMAIN points |->
                                   << c * points[i][1] - s * points[i][2],
                                      c * points[i][2] + s * points[i][1],
                                      h * points[i][3] >> ],
                      unit |-> unit * h ]

\* the body of the try block of _apply_roll_correction: exc is the
\* IndexError of self.points[...]; otherwise every point is rotated about
\* the origin by minus the angle of the line L_eye_outer -> R_eye_outer.
\* With (c, s, h) the lowest terms of (dx, dy, |d|) the rotated point is
\* ((c x + s y) / h, (-s x + c y) / h, z); arctan2(0, 0) = 0 rotates by 0.
RollBody(points, unit, index_map) ==
  LET li == DictGetDefault(index_map, "L_eye_outer", 33)
      ri == DictGetDefault(index_map, "R_eye_outer", 263)
  IN  IF ~InRange(points, li) \/ ~InRange(points, ri)
      THEN [exc |-> TRUE, points |-> points, unit |-> unit]
      ELSE LET left_eye == At(points, li)
               right_eye == At(points, ri)
               dx == right_eye[1] - left_eye[1]
               dy == right_eye[2] - left_eye[2]
               csh == Lowest(<<dx, dy, ISqrt(dx * dx + dy * dy)>>)
               c == csh[1]
               s == csh[2]
               h == csh[3]
           IN  IF h = 0
               THEN [exc |-> FALSE, points |-> points, unit |-> unit]
               ELSE [ exc |-> FALSE,
                      points |-> [ i \in DOMAIN points |->
                                   << c * points[i][1] + s * points[i][2],
                                      c * points[i][2] - s * points[i][1],
                                      h * points[i][3] >> ],
                      unit |-> unit * h ]

\* the same without the try / except around the body
RollNoCatch(points, unit, index_map) == RollBody(points, unit, index_map)

\* try: body; except: pass
_apply_roll_correction(points, unit, index_map) ==
  LET r == RollBody(points, unit, index_map)
  IN  IF r.exc THEN [exc |-> FALSE, points |-> points, unit |-> unit] ELSE r

\* the length (in 1 / unit) between the points of two names when both
\* indices are inside the array and the length exceeds eps, else 0
BasisCandidate(points, index_map, a, da, b, db) ==
  LET ai == DictGetDefault(index_map, a, da)
      bi == DictGetDefault(index_map, b, db)
  IN  IF ~InRange(points, ai) \/ ~InRange(points, bi) THEN 0
      ELSE ISqrt(dist(At(points, ai), At(points, bi), "2D"))

\* a derivation that returns the outer-eye width whenever it can be read
ScaleBasisUnguarded(points, unit, index_map) ==
  LET li == DictGetDefault(index_map, "L_eye_outer", 33)
      ri == DictGetDefault(index_map, "R_eye_outer", 263)
      face_width == BasisCandidate(points, index_map,
                                   "L_cheek", 205, "R_cheek", 425)
  IN  IF InRange(points, li) /\ InRange(points, ri)
      THEN ISqrt(dist(At(points, li), At(points, ri), "2D"))
      ELSE IF face_width > 0 THEN face_width
      ELSE unit

\* the scale basis in 1 / unit: outer-eye width, else cheek width, else 1.0
_compute_scale_basis(points, unit, index_map) ==
  LET eye_width == BasisCandidate(points, index_map,
                                  "L_eye_outer", 33, "R_eye_outer", 263)
      face_width == BasisCandidate(points, index_map,
                                   "L_cheek", 205, "R_cheek", 425)
  IN  IF eye_width > 0 THEN eye_width
      ELSE IF face_width > 0 THEN face_width
      ELSE unit

\* a conversion that keeps the visibility values whatever they are
ConvertKeepVisibility(landmarks, blendshapes, index_map) ==
  IF \E i \in DOMAIN landmarks : ~WellFormed(landmarks[i])
  THEN [exc |-> TRUE]
  ELSE [ exc |-> FALSE,
         blendshapes |-> IF blendshapes.given THEN blendshapes.v ELSE <<>>,
         index_map |-> IF index_map.given /\ DOMAIN index_map.v /= {}
                       THEN index_map.v ELSE FALLBACK_INDICES,
         fallback_indices_used |-> ~index_map.given,
         points |-> [ i \in DOMAIN landmarks |->
                      <<landmarks[i].x, landmarks[i].y, landmarks[i].z>> ],
         unit |-> Grid,
         visibility |->
           [i \in DOMAIN landmarks |-> Confidence(landmarks[i], "visibility")] ]

\* the flag tells which table is in use rather than whether a map was given
ConvertFlagFromTable(landmarks, blendshapes, index_map) ==
  IF \E i \in DOMAIN landmarks : ~WellFormed(landmarks[i])
  THEN [exc |-> TRUE]
  ELSE LET visibility_values ==
             [i \in DOMAIN landmarks |-> Confidence(landmarks[i], "visibility")]
       IN  [ exc |-> FALSE,
             blendshapes |-> IF blendshapes.given THEN blendshapes.v ELSE <<>>,
             index_map |-> IF index_map.given /\ DOMAIN index_map.v /= {}
                           THEN index_map.v ELSE FALLBACK_INDICES,
             fallback_indices_used |->
               ~(index_map.given /\ DOMAIN index_map.v /= {}),
             points |-> [ i \in DOMAIN landmarks |->
                          <<landmarks[i].x, landmarks[i].y, landmarks[i].z>> ],
             unit |-> Grid,
             visibility |->
               IF AllZero(visibility_values)
               THEN [i \in DOMAIN landmarks |-> Confidence(landmarks[i], "presence")]
               ELSE visibility_values ]

\* lines 105-121: None when lm['x'] raises KeyError, else the fields set
\* before roll correction
Convert(landmarks, blendshapes, index_map) ==
  IF \E i \in DOMAIN landmarks : ~WellFormed(landmarks[i])
  THEN [exc |-> TRUE]
  ELSE LET visibility_values ==
             [i \in DOMAIN landmarks |-> Confidence(landmarks[i], "visibility")]
       IN  [ exc |-> FALSE,
             blendshapes |-> IF blendshapes.given THEN blendshapes.v ELSE <<>>,
             index_map |-> IF index_map.given /\ DOMAIN index_map.v /= {}
                           THEN index_map.v ELSE FALLBACK_INDICES,
             fallback_indices_used |-> ~index_map.given,
             points |-> [ i \in DOMAIN landmarks |->
                          <<landmarks[i].x, landmarks[i].y, landmarks[i].z>> ],
             unit |-> Grid,
             visibility |->
               IF AllZero(visibility_values)
               THEN [i \in DOMAIN landmarks |-> Confidence(landmarks[i], "presence")]
               ELSE visibility_values ]

\* ----------------------------------------------------------- _get_point
\* a lookup that never compares the confidence with the threshold
GetPointUnchecked(self, name) ==
  LET r == DictGet(self.index_map, name)
  IN  IF ~r.found THEN None
      ELSE IF r.idx >= Len(self.points) THEN None
      ELSE IF ~InRange(self.points, r.idx) THEN None
      ELSE At(self.points, r.idx)

\* a lookup that clamps the index to the last landmark
GetPointClamped(self, name) ==
  LET r == DictGet(self.index_map, name)
      idx == IF r.idx >= Len(self.points) THEN Len(self.points) - 1 ELSE r.idx
  IN  IF ~r.found THEN None
      ELSE IF ~InRange(self.points, idx) THEN None
      ELSE IF ~AllZero(self.visibility)
              /\ At(self.visibility, idx) < visibility_threshold THEN None
      ELSE At(self.points, idx)

_get_point(self, name) ==
  LET r == DictGet(self.index_map, name)
  IN  IF ~r.found THEN None
      ELSE IF r.idx >= Len(self.points) THEN None
      ELSE IF ~InRange(self.points, r.idx) THEN None
      ELSE IF ~AllZero(self.visibility)
              /\ At(self.visibility, r.idx) < visibility_threshold THEN None
      ELSE At(self.points, r.idx)

\* twice the midpoint of the inner brows (the midpoint times two keeps the
\* coordinates integral), or None
_compute_glabella(self) ==
  LET left_brow == _get_point(self, "L_brow_inner")
      right_brow == _get_point(self, "R_brow_inner")
  IN  IF left_brow /= None /\ right_brow /= None
      THEN << left_brow[1] + right_brow[1], left_brow[2] + right_brow[2],
              left_brow[3] + right_brow[3] >>
      ELSE None

Twice(p) == <<2 * p[1], 2 * p[2], 2 * p[3]>>
Sq(a) == a * a
\* a dict with one key when cond holds, else the empty dict
Entry(cond, key, value) == IF cond THEN key :> value ELSE <<>>

\* ------------------------------------------------------- region analyzers
\* the per-side entries of analyze_eyes (fissure length and canthal tilt)
EyeSide(self, side) ==
  LET outer == _get_point(self, side \o "_eye_outer")
      inner == _get_point(self, side \o "_eye_inner")
      src == <<side \o "_eye_outer", side \o "_eye_inner">>
  IN  IF outer /= None /\ inner /= None
      THEN ("fissure_length_" \o side :>
              Metric(Num("sqrt", <<dist(outer, inner, "2D"), Sq(self.scale_basis)>>),
                     "2D", src))
           @@ ("canthal_tilt_deg_" \o side :>
              Metric(Num("atan2_deg", <<outer[2] - inner[2], Abs(outer[1] - inner[1])>>),
                     "2D", src))
      ELSE <<>>

\* the per-side brow entries of analyze_eyes
BrowSide(self, side) ==
  LET brow_inner == _get_point(self, side \o "_brow_inner")
      brow_outer == _get_point(self, side \o "_brow_outer")
      eye_center == _get_point(self, side \o "_eye_inner")
  IN  IF brow_inner /= None /\ brow_outer /= None /\ eye_center /= None
      THEN ("brow_height_" \o side :>
              Metric(Rat(Abs(brow_inner[2] - eye_center[2]), self.scale_basis),
                     "2D", <<side \o "_brow_inner", side \o "_eye_inner">>))
           @@ ("brow_slope_" \o side :>
              Metric(Num("slope_eps", <<brow_outer[2] - brow_inner[2],
                                        Abs(brow_outer[1] - brow_inner[1]),
                                        self.unit>>),
                     "2D", <<side \o "_brow_inner", side \o "_brow_outer">>))
      ELSE <<>>

analyze_eyes(self) ==
  LET left_inner == _get_point(self, "L_eye_inner")
      right_inner == _get_point(self, "R_eye_inner")
      left_outer == _get_point(self, "L_eye_outer")
      right_outer == _get_point(self, "R_eye_outer")
      ipd_ratio == safe_ratio(dist(left_inner, right_inner, "2D"),
                              dist(left_outer, right_outer, "2D"))
  IN  EyeSide(self, "L") @@ EyeSide(self, "R")
      @@ (IF left_inner /= None /\ right_inner /= None
             /\ left_outer /= None /\ right_outer /= None
          THEN Entry(ipd_ratio /= NoneValue, "intercanthal_over_eye_width",
                     Metric(ipd_ratio, "2D",
                            <<"L_eye_inner", "R_eye_inner",
                              "L_eye_outer", "R_eye_outer">>))
          ELSE <<>>)
      @@ BrowSide(self, "L") @@ BrowSide(self, "R")

\* lines 283-287: the ratio is stored as safe_ratio returns it
AlarOverInterEye(self, alar_width, left_eye_inner, right_eye_inner) ==
  "alar_width_over_inter_eye" :>
     Metric(safe_ratio(alar_width,
                       dist(left_eye_inner, right_eye_inner, "2D")),
            "2D", <<"alare_L", "alare_R", "L_eye_inner", "R_eye_inner">>)

analyze_nose(self) ==
  LET nose_tip == _get_point(self, "nose_tip")
      subnasale == _get_point(self, "subnasale")
      nasion == _get_point(self, "nasion")
      alare_l == _get_point(self, "alare_L")
      alare_r == _get_point(self, "alare_R")
      left_eye_inner == _get_point(self, "L_eye_inner")
      right_eye_inner == _get_point(self, "R_eye_inner")
      chin_tip == _get_point(self, "chin_tip")
      upper_lip == _get_point(self, "labiale_superius")
      ratio == safe_ratio(dist(nasion, subnasale, "2D"),
                          dist(nasion, chin_tip, "2D"))
  IN  (IF alare_l /= None /\ alare_r /= None
       THEN IF left_eye_inner /= None /\ right_eye_inner /= None
            THEN AlarOverInterEye(self, dist(alare_l, alare_r, "2D"),
                                  left_eye_inner, right_eye_inner)
            ELSE "alar_width_normalized" :>
                   Metric(Num("sqrt", <<dist(alare_l, alare_r, "2D"),
                                        Sq(self.scale_basis)>>),
                          "2D", <<"alare_L", "alare_R">>)
       ELSE <<>>)
      @@ (IF nasion /= None /\ subnasale /= None /\ chin_tip /= None
          THEN Entry(ratio /= NoneValue, "nasal_length_over_face_height",
                     Metric(ratio, "2D", <<"nasion", "subnasale", "chin_tip">>))
          ELSE <<>>)
      @@ (IF nose_tip /= None /\ subnasale /= None
          THEN ("tip_projection_3D_over_IPD" :>
                  Metric(Rat(Abs(nose_tip[3] - subnasale[3]), self.scale_basis),
                         "3D", <<"nose_tip", "subnasale">>))
               @@ (IF upper_lip /= None
                   THEN "nasal_tip_to_upper_lip_angle_deg" :>
                          Metric(angle_deg(nose_tip, subnasale, upper_lip, self.unit),
                                 "2D", <<"nose_tip", "subnasale", "labiale_superius">>)
                   ELSE <<>>)
          ELSE <<>>)

analyze_mouth(self) ==
  LET left_corner == _get_point(self, "cheilion_L")
      right_corner == _get_point(self, "cheilion_R")
      upper_lip == _get_point(self, "labiale_superius")
      lower_lip == _get_point(self, "labiale_inferius")
      stomion == _get_point(self, "stomion")
      ratio == safe_ratio(dist(upper_lip, stomion, "2D"),
                          dist(stomion, lower_lip, "2D"))
  IN  (IF left_corner /= None /\ right_corner /= None
       THEN ("mouth_width_over_IPD" :>
               Metric(Num("sqrt", <<dist(left_corner, right_corner, "2D"),
                                    Sq(self.scale_basis)>>),
                      "2D", <<"cheilion_L", "cheilion_R">>))
            @@ (IF stomion /= None
                THEN "smile_arc_curvature" :>
                       Metric(polyfit_curvature(<<left_corner, stomion, right_corner>>,
                                                self.unit),
                              "2D", <<"cheilion_L", "stomion", "cheilion_R">>)
                ELSE <<>>)
       ELSE <<>>)
      @@ (IF upper_lip /= None /\ lower_lip /= None /\ stomion /= None
          THEN Entry(ratio /= NoneValue, "upper_to_lower_lip_ratio",
                     Metric(ratio, "2D",
                            <<"labiale_superius", "stomion", "labiale_inferius">>))
          ELSE <<>>)
      @@ (IF upper_lip /= None /\ stomion /= None
          THEN "cupid_bow_depth" :>
                 Metric(Rat(Abs(upper_lip[2] - stomion[2]), self.scale_basis),
                        "2D", <<"labiale_superius", "stomion">>)
          ELSE <<>>)

\* a Structure analyzer that stores the upper third ratio alone
StructureUpperThirdOnly(self) ==
  LET chin_tip == _get_point(self, "chin_tip")
      nasion == _get_point(self, "nasion")
      glabella == _compute_glabella(self)
      subnasale == _get_point(self, "subnasale")
      upper_third == IF nasion /= None
                     THEN dist(glabella, Twice(nasion), "2D") ELSE 0
      middle_third == IF nasion /= None
                      THEN dist(nasion, subnasale, "2D") ELSE 0
  IN  IF glabella /= None /\ subnasale /= None /\ chin_tip /= None
         /\ middle_third > 0
      THEN "upper_to_middle_third" :>
             Metric(safe_ratio(upper_third, 4 * middle_third), "2D",
                    <<"glabella", "nasion", "subnasale">>)
      ELSE <<>>

analyze_structure(self) ==
  LET chin_tip == _get_point(self, "chin_tip")
      nasion == _get_point(self, "nasion")
      glabella == _compute_glabella(self)
      subnasale == _get_point(self, "subnasale")
      left_cheek == _get_point(self, "L_cheek")
      right_cheek == _get_point(self, "R_cheek")
      gonion_l == _get_point(self, "gonion_L")
      gonion_r == _get_point(self, "gonion_R")
      menton == _get_point(self, "menton")
      \* four times the square of upper_third (glabella is doubled)
      upper_third == IF nasion /= None
                     THEN dist(glabella, Twice(nasion), "2D") ELSE 0
      middle_third == IF nasion /= None
                      THEN dist(nasion, subnasale, "2D") ELSE 0
      lower_third == dist(subnasale, chin_tip, "2D")
      ratio == safe_ratio(dist(nasion, chin_tip, "2D"),
                          dist(left_cheek, right_cheek, "2D"))
  IN  (IF glabella /= None /\ subnasale /= None /\ chin_tip /= None
          /\ middle_third > 0
       THEN ("upper_to_middle_third" :>
               Metric(safe_ratio(upper_third, 4 * middle_third), "2D",
                      <<"glabella", "nasion", "subnasale">>))
            @@ ("lower_to_middle_third" :>
               Metric(safe_ratio(lower_third, middle_third), "2D",
                      <<"subnasale", "chin_tip", "nasion">>))
       ELSE <<>>)
      @@ (IF chin_tip /= None /\ nasion /= None
             /\ left_cheek /= None /\ right_cheek /= None
          THEN Entry(ratio /= NoneValue, "face_height_over_width",
                     Metric(ratio, "2D",
                            <<"nasion", "chin_tip", "L_cheek", "R_cheek">>))
          ELSE <<>>)
      @@ (IF gonion_l /= None /\ gonion_r /= None
          THEN ("gonial_width_normalized" :>
                  Metric(Num("sqrt", <<dist(gonion_l, gonion_r, "2D"),
                                       Sq(self.scale_basis)>>),
                         "2D", <<"gonion_L", "gonion_R">>))
               @@ (IF menton /= None
                   THEN "mandibular_angle_deg" :>
                          Metric(angle_deg(gonion_l, menton, gonion_r, self.unit),
                                 "2D", <<"gonion_L", "menton", "gonion_R">>)
                   ELSE <<>>)
          ELSE <<>>)
      @@ (IF chin_tip /= None /\ subnasale /= None
          THEN "chin_prominence_3D" :>
                 Metric(Rat(Abs(chin_tip[3] - subnasale[3]), self.scale_basis),
                        "3D", <<"chin_tip", "subnasale">>)
          ELSE <<>>)

\* the bilateral pairs of analyze_symmetry, in order
pairs ==
  << <<"L_eye_outer", "R_eye_outer">>, <<"L_eye_inner", "R_eye_inner">>,
     <<"L_brow_inner", "R_brow_inner">>, <<"L_brow_outer", "R_brow_outer">>,
     <<"alare_L", "alare_R">>, <<"cheilion_L", "cheilion_R">>,
     <<"gonion_L", "gonion_R">> >>

PairAvailable(self, i) ==
  _get_point(self, pairs[i][1]) /= None /\ _get_point(self, pairs[i][2]) /= None

\* |midpoint.x - 0.5| of pair i, times 2 * Grid * unit
MidlineNumerator(self, i) ==
  LET left_pt == _get_point(self, pairs[i][1])
      right_pt == _get_point(self, pairs[i][2])
  IN  Abs(Grid * (left_pt[1] + right_pt[1]) - 2 * Center * self.unit)

RECURSIVE SumMidline(_, _)
SumMidline(self, i) ==
  IF i = 0 THEN 0
  ELSE SumMidline(self, i - 1)
       + (IF PairAvailable(self, i) THEN MidlineNumerator(self, i) ELSE 0)

\* the score without the clamp: 1.0 - avg_deviation / 5.0
MidlineScoreUnclamped(sum, k, scale_basis) ==
  LET den == 2 * SymmetryDivisor * Grid * scale_basis * k
  IN  Rat(den - sum, den)

\* max(0.0, min(1.0, 1.0 - avg_deviation / 5.0)) for the sum of the k
\* midline numerators: avg_deviation = sum / (2 * Grid * scale_basis * k)
MidlineScore(sum, k, scale_basis) ==
  LET den == 2 * SymmetryDivisor * Grid * scale_basis * k
  IN  Rat(IF den - sum < 0 THEN 0 ELSE den - sum, den)

analyze_symmetry(self) ==
  LET available == {i \in DOMAIN pairs : PairAvailable(self, i)}
      bilateral_deltas ==
        [ key \in {pairs[i][1] \o "_vs_" \o pairs[i][2] : i \in available} |->
            LET i == CHOOSE j \in available :
                       key = pairs[j][1] \o "_vs_" \o pairs[j][2]
                left_pt == _get_point(self, pairs[i][1])
                right_pt == _get_point(self, pairs[i][2])
            IN  Rat(Abs(Abs(left_pt[1]) - Abs(right_pt[1])), self.scale_basis) ]
  IN  Entry(available /= {}, "midline_symmetry_score",
            Metric(MidlineScore(SumMidline(self, Len(pairs)),
                                Cardinality(available), self.scale_basis),
                   "2D",
                   [i \in DOMAIN pairs |-> pairs[i][1]]
                   \o [i \in DOMAIN pairs |-> pairs[i][2]]))
      @@ ("bilateral_feature_deltas" :> bilateral_deltas)

analyze_profile(self) ==
  LET nose_tip == _get_point(self, "nose_tip")
      chin_tip == _get_point(self, "chin_tip")
      upper_lip == _get_point(self, "labiale_superius")
      lower_lip == _get_point(self, "labiale_inferius")
      left_cheek == _get_point(self, "L_cheek")
      right_cheek == _get_point(self, "R_cheek")
      ratio == safe_ratio(Sq(nose_tip[3]), Sq(chin_tip[3]))
      \* midface_depth = (|zl| + |zr|) / 2 over face_width
      depth_ratio == safe_ratio(Sq(Abs(left_cheek[3]) + Abs(right_cheek[3])),
                                4 * dist(left_cheek, right_cheek, "2D"))
  IN  (IF nose_tip /= None /\ chin_tip /= None
       THEN (IF upper_lip /= None
             THEN "e_line_upper_lip" :>
                    Metric(Rat(Abs(2 * upper_lip[3] - nose_tip[3] - chin_tip[3]),
                               2 * self.scale_basis),
                           "3D", <<"nose_tip", "chin_tip", "labiale_superius">>)
             ELSE <<>>)
            @@ (IF lower_lip /= None
                THEN "e_line_lower_lip" :>
                       Metric(Rat(Abs(2 * lower_lip[3] - nose_tip[3] - chin_tip[3]),
                                  2 * self.scale_basis),
                              "3D", <<"nose_tip", "chin_tip", "labiale_inferius">>)
                ELSE <<>>)
            @@ Entry(ratio /= NoneValue, "tip_projection_over_chin_projection",
                     Metric(ratio, "3D", <<"nose_tip", "chin_tip">>))
       ELSE <<>>)
      @@ (IF left_cheek /= None /\ right_cheek /= None
          THEN Entry(depth_ratio /= NoneValue, "midface_depth_over_face_width",
                     Metric(depth_ratio, "3D", <<"L_cheek", "R_cheek">>))
          ELSE <<>>)

\* ratios_to_check of analyze_golden_diagnostics: name -> ratio
RatiosToCheck(self) ==
  LET left_eye_outer == _get_point(self, "L_eye_outer")
      right_eye_outer == _get_point(self, "R_eye_outer")
      left_mouth == _get_point(self, "cheilion_L")
      right_mouth == _get_point(self, "cheilion_R")
      chin_tip == _get_point(self, "chin_tip")
      nasion == _get_point(self, "nasion")
      left_cheek == _get_point(self, "L_cheek")
      right_cheek == _get_point(self, "R_cheek")
      subnasale == _get_point(self, "subnasale")
      stomion == _get_point(self, "stomion")
      eye_mouth == safe_ratio(dist(left_eye_outer, right_eye_outer, "2D"),
                              dist(left_mouth, right_mouth, "2D"))
      height_width == safe_ratio(dist(nasion, chin_tip, "2D"),
                                 dist(left_cheek, right_cheek, "2D"))
      nose_mouth == safe_ratio(dist(subnasale, stomion, "2D"),
                               dist(stomion, chin_tip, "2D"))
  IN  (IF left_eye_outer /= None /\ right_eye_outer /= None
          /\ left_mouth /= None /\ right_mouth /= None
       THEN Entry(eye_mouth /= NoneValue, "eye_to_mouth_width", eye_mouth)
       ELSE <<>>)
      @@ (IF chin_tip /= None /\ nasion /= None
             /\ left_cheek /= None /\ right_cheek /= None
          THEN Entry(height_width /= NoneValue, "face_height_to_width", height_width)
          ELSE <<>>)
      @@ (IF subnasale /= None /\ stomion /= None /\ chin_tip /= None
          THEN Entry(nose_mouth /= NoneValue, "nose_mouth_to_mouth_chin", nose_mouth)
          ELSE <<>>)

\* the ratio n * PHI / d, a number in units of PHI
PhiMultiple(n, d) == Num("phi_multiple", <<n, d>>)

\* (ratio - PHI) / PHI, without the absolute value
PhiDeviationSigned(ratio) ==
  IF ratio.k = "phi_multiple"
  THEN Rat(ratio.v[1] - ratio.v[2], ratio.v[2])
  ELSE [k |-> "phi_deviation_signed", v |-> ratio.v]

\* abs(ratio - PHI) / PHI: of n * PHI / d it is |n - d| / d; of a ratio
\* sqrt(a / b) of the lattice, which is no multiple of PHI, it is kept as
\* the closed form
PhiDeviation(ratio) ==
  IF ratio.k = "phi_multiple"
  THEN Rat(Abs(ratio.v[1] - ratio.v[2]), ratio.v[2])
  ELSE [k |-> "phi_deviation", v |-> ratio.v]

\* 1.0 - np.std(thirds_ratios)
ThirdsEvenness(thirds_ratios) ==
  [k |-> "one_minus_std", v |-> [i \in DOMAIN thirds_ratios |-> thirds_ratios[i].v]]

\* 1.0 - mean(|f - ideal_fifth| / ideal_fifth), ideal_fifth = total_width / 5;
\* a zero total_width divides by zero (numpy: no exception): f / 0.0 is inf
\* for f > 0 and nan for f = 0, the mean of infs is inf, a nan makes it nan
FifthsEvenness(total_width, eye_width_l, intercanthal, eye_width_r) ==
  IF total_width = 0
  THEN IF 0 \in {eye_width_l, intercanthal, eye_width_r} THEN NaN ELSE NegInf
  ELSE Num("fifths_evenness",
           <<eye_width_l, intercanthal, eye_width_r, total_width>>)

analyze_golden_diagnostics(self, structure) ==
  LET ratios == RatiosToCheck(self)
      phi_deviations ==
        [ key \in {name \o "_phi_deviation" : name \in DOMAIN ratios} |->
            LET name == CHOOSE n \in DOMAIN ratios : key = n \o "_phi_deviation"
            IN  create_metric(PhiDeviation(ratios[name]), "2D", <<>>, TRUE, 80) ]
      thirds_ratios ==
        (IF "upper_to_middle_third" \in DOMAIN structure
         THEN <<structure["upper_to_middle_third"].value>> ELSE <<>>)
        \o (IF "lower_to_middle_third" \in DOMAIN structure
            THEN <<structure["lower_to_middle_third"].value>> ELSE <<>>)
      left_outer == _get_point(self, "L_eye_outer")
      left_inner == _get_point(self, "L_eye_inner")
      right_inner == _get_point(self, "R_eye_inner")
      right_outer == _get_point(self, "R_eye_outer")
  IN  ("phi_deviations" :> phi_deviations)
      @@ Entry(thirds_ratios /= <<>>, "thirds_evenness",
               create_metric(ThirdsEvenness(thirds_ratios), "2D", <<>>, TRUE, 70))
      @@ (IF left_outer /= None /\ left_inner /= None
             /\ right_inner /= None /\ right_outer /= None
          THEN "fifths_evenness" :>
                 Metric(FifthsEvenness(dist(left_outer, right_outer, "2D"),
                                       dist(left_outer, left_inner, "2D"),
                                       dist(left_inner, right_inner, "2D"),
                                       dist(right_inner, right_outer, "2D")),
                        "2D", <<"L_eye_outer", "L_eye_inner",
                                "R_eye_inner", "R_eye_outer">>)
          ELSE <<>>)

\* a blendshape entry is a mapping (bs.get works) or not; score and
\* category_name default to 0 and 'unknown'
BlendScore(bs) == IF "score" \in DOMAIN bs THEN bs.score ELSE 0
BlendName(bs) ==
  IF "category_name" \in DOMAIN bs THEN bs.category_name ELSE "unknown"

\* exc is the AttributeError of bs.get on an entry that is not a mapping
analyze_blendshapes(self) ==
  IF self.blendshapes = <<>> THEN [exc |-> FALSE, summary |-> <<>>]
  ELSE IF \E i \in DOMAIN self.blendshapes : ~self.blendshapes[i].mapping
  THEN [exc |-> TRUE, summary |-> <<>>]
  ELSE [ exc |-> FALSE,
         summary |->
           [ total_blendshapes |-> Len(self.blendshapes),
             active_blendshapes |->
               LET active == SelectSeq(self.blendshapes,
                                       LAMBDA bs : BlendScore(bs) > ActiveScore)
               IN  [ i \in DOMAIN active |->
                       [name |-> BlendName(active[i]), score |-> BlendScore(active[i])] ] ] ]

\* a pose estimator whose yaw also waits for chin_tip
EstimatePoseYawNeedsChin(self) ==
  LET nose_tip == _get_point(self, "nose_tip")
      chin_tip == _get_point(self, "chin_tip")
      left_ear == _get_point(self, "L_ear_top")
      right_ear == _get_point(self, "R_ear_top")
  IN  (IF left_ear /= None /\ right_ear /= None
       THEN "roll_deg" :> Num("atan2_deg", <<right_ear[2] - left_ear[2],
                                             right_ear[1] - left_ear[1]>>)
       ELSE <<>>)
      @@ (IF nose_tip /= None /\ chin_tip /= None
          THEN ("yaw_deg" :> Num("arcsin_clip_2x_deg", <<nose_tip[1], self.unit>>))
               @@ ("pitch_deg" :> Num("atan2_eps_deg",
                                     <<chin_tip[2] - nose_tip[2],
                                       Abs(chin_tip[3] - nose_tip[3]),
                                       self.unit>>))
          ELSE <<>>)

_estimate_pose(self) ==
  LET nose_tip == _get_point(self, "nose_tip")
      chin_tip == _get_point(self, "chin_tip")
      left_ear == _get_point(self, "L_ear_top")
      right_ear == _get_point(self, "R_ear_top")
  IN  (IF left_ear /= None /\ right_ear /= None
       THEN "roll_deg" :> Num("atan2_deg", <<right_ear[2] - left_ear[2],
                                             right_ear[1] - left_ear[1]>>)
       ELSE <<>>)
      @@ (IF nose_tip /= None
          THEN "yaw_deg" :> Num("arcsin_clip_2x_deg", <<nose_tip[1], self.unit>>)
          ELSE <<>>)
      @@ (IF nose_tip /= None /\ chin_tip /= None
          THEN "pitch_deg" :> Num("atan2_eps_deg", <<chin_tip[2] - nose_tip[2],
                                                   Abs(chin_tip[3] - nose_tip[3]),
                                                   self.unit>>)
          ELSE <<>>)

\* the dict returned by analyze (lines 657-672)
Compile(self, pose, eyes, nose, mouth, structure, symmetry, profile, golden, blendshape_summary) ==
  [ normalization |->
      [ scale_basis |-> Rat(self.scale_basis, self.unit),
        fallback_indices_used |-> self.fallback_indices_used,
        visibility_threshold |-> visibility_threshold ],
    pose_estimation |-> pose,
    eyes |-> eyes, nose |-> nose, mouth |-> mouth, structure |-> structure,
    symmetry |-> symmetry, profile |-> profile,
    golden_diagnostics |-> golden,
    blendshape_summary |-> blendshape_summary ]

\* an except branch that reports the error inside a result skeleton
EnvelopeInSkeleton(error) ==
  [ error |-> error, traceback |-> "Traceback", status |-> "failed",
    normalization |-> <<>>, eyes |-> <<>> ]

\* the dict of the except branch of analyze_face_ratios
Envelope(error) ==
  [error |-> error, traceback |-> "Traceback", status |-> "failed"]

\* FaceAnalyzer(landmarks, blendshapes, index_map): exc or the object
FaceAnalyzer(landmarks, blendshapes, index_map) ==
  LET c == Convert(landmarks, blendshapes, index_map)
  IN  IF c.exc THEN [exc |-> TRUE, error |-> "KeyError"]
      ELSE LET r == _apply_roll_correction(c.points, c.unit, c.index_map)
           IN  IF r.exc THEN [exc |-> TRUE, error |-> "IndexError"]
               ELSE [ exc |-> FALSE,
                      blendshapes |-> c.blendshapes,
                      index_map |-> c.index_map,
                      fallback_indices_used |-> c.fallback_indices_used,
                      points |-> r.points,
                      unit |-> r.unit,
                      visibility |-> c.visibility,
                      scale_basis |->
                        _compute_scale_basis(r.points, r.unit, c.index_map) ]

\* FaceAnalyzer.analyze: exc or the result dict
analyze(self) ==
  LET structure == analyze_structure(self)
      bs == analyze_blendshapes(self)
  IN  IF bs.exc THEN [exc |-> TRUE, error |-> "AttributeError"]
      ELSE [ exc |-> FALSE,
             result |-> Compile(self, _estimate_pose(self), analyze_eyes(self),
                                analyze_nose(self), analyze_mouth(self),
                                structure, analyze_symmetry(self),
                                analyze_profile(self),
                                analyze_golden_diagnostics(self, structure),
                                bs.summary) ]

analyze_face_ratios(landmarks, blendshapes, index_map) ==
  LET a == FaceAnalyzer(landmarks, blendshapes, index_map)
  IN  IF a.exc THEN Envelope(a.error)
      ELSE LET r == analyze(a)
           IN  IF r.exc THEN Envelope(r.error) ELSE r.result

\* ------------------------------------------------------------------ inputs
Given(v) == [given |-> TRUE, v |-> v]
\* the argument None
Absent == [given |-> FALSE, v |-> <<>>]

\* a face on the grid, symmetric about x = Center, eyes level
BaseFace ==
  [ trichion |-> <<8, 1, 0>>,
    L_brow_outer |-> <<3, 4, 1>>, L_brow_inner |-> <<6, 5, 1>>,
    R_brow_inner |-> <<10, 5, 1>>, R_brow_outer |-> <<13, 4, 1>>,
    L_eye_outer |-> <<4, 6, 1>>, L_eye_inner |-> <<7, 6, 1>>,
    R_eye_inner |-> <<9, 6, 1>>, R_eye_outer |-> <<12, 6, 1>>,
    L_pupil |-> <<5, 6, 1>>, R_pupil |-> <<11, 6, 1>>,
    nasion |-> <<8, 6, 2>>, nose_tip |-> <<8, 9, 4>>,
    subnasale |-> <<8, 10, 3>>, alare_L |-> <<6, 9, 2>>,
    alare_R |-> <<10, 9, 2>>, labiale_superius |-> <<8, 11, 3>>,
    stomion |-> <<8, 12, 3>>, labiale_inferius |-> <<8, 13, 3>>,
    cheilion_L |-> <<6, 12, 2>>, cheilion_R |-> <<10, 12, 2>>,
    chin_tip |-> <<8, 15, 2>>, menton |-> <<8, 16, 2>>,
    gonion_L |-> <<4, 13, 0>>, gonion_R |-> <<12, 13, 0>>,
    L_cheek |-> <<3, 9, 1>>, R_cheek |-> <<13, 9, 1>>,
    L_ear_top |-> <<1, 7, -1>>, R_ear_top |-> <<15, 7, -1>> ]

\* the landmark of an index no name refers to
Filler == <<Center, Center, 0>>

\* the eye line: level, tilted (rising by 6 over 8) or reversed (the
\* point named left lies to the right)
Tilts == {"level", "tilted", "reversed"}
Face(tilt) ==
  IF tilt = "tilted"
  THEN [BaseFace EXCEPT !["L_eye_outer"] = <<4, 3, 1>>,
                        !["R_eye_outer"] = <<12, 9, 1>>]
  ELSE IF tilt = "reversed"
  THEN [BaseFace EXCEPT !["L_eye_outer"] = <<12, 6, 1>>,
                        !["R_eye_outer"] = <<4, 6, 1>>]
  ELSE BaseFace

\* <<a, b>>: landmark a lies where landmark b lies (a zero denominator)
CollapsePairs ==
  { <<"R_eye_outer", "L_eye_outer">>, <<"R_cheek", "L_cheek">>,
    <<"R_eye_inner", "L_eye_inner">>, <<"chin_tip", "nasion">>,
    <<"subnasale", "nasion">>, <<"labiale_inferius", "stomion">>,
    <<"cheilion_R", "cheilion_L">>, <<"chin_tip", "stomion">>,
    <<"chin_tip", "trichion">> }
\* the subsets of S with at most k elements
RECURSIVE SubsetsUpTo(_, _)
SubsetsUpTo(S, k) ==
  IF k = 0 THEN {{}}
  ELSE LET smaller == SubsetsUpTo(S, k - 1)
       IN  smaller \cup {s \cup {x} : s \in smaller, x \in S}

Collapses ==
  { c \in SubsetsUpTo(CollapsePairs, MaxCollapse) :
      \A p \in c, q \in c : p[1] = q[1] => p = q }

Position(face, collapse, name) ==
  IF \E pr \in collapse : pr[1] = name
  THEN face[(CHOOSE pr \in collapse : pr[1] = name)[2]]
  ELSE face[name]

\* confidence levels (hundredths) given to lowered landmarks; 30 is the
\* threshold itself
LowLevels == {10, 30}
\* the confidence of every other landmark
HighLevels == {90}
High == CHOOSE h \in HighLevels : TRUE
Lows == UNION { [l -> LowLevels] : l \in SubsetsUpTo(Names, MaxLow) }
\* which signal carries the confidence: visibility; presence (every
\* visibility 0.0); neither (every visibility and presence 0.0)
Modes == {"visibility", "presence", "zero"}

\* a compact index map for arrays of 29 landmarks
NameSeq ==
  << "stomion", "subnasale", "nose_tip", "nasion", "chin_tip", "L_eye_outer",
     "L_cheek", "L_eye_inner", "R_eye_inner", "R_eye_outer", "R_cheek",
     "L_brow_inner", "R_brow_inner", "L_brow_outer", "R_brow_outer",
     "alare_L", "alare_R", "labiale_superius", "labiale_inferius",
     "cheilion_L", "cheilion_R", "gonion_L", "gonion_R", "menton",
     "L_ear_top", "R_ear_top", "trichion", "L_pupil", "R_pupil" >>
CompactMap ==
  [name \in Names |-> (CHOOSE i \in DOMAIN NameSeq : NameSeq[i] = name) - 1]
\* indices outside every array of the model
FarIndices == {999}

\* n landmark records: the landmark of name a is stored at place[a]
MakeLandmarks(n, place, face, collapse, low, mode) ==
  [ i \in 1..n |->
      LET named == {a \in DOMAIN place : place[a] = i - 1}
          a == CHOOSE b \in named : TRUE
          pos == IF named = {} THEN Filler ELSE Position(face, collapse, a)
          level == IF named /= {} /\ a \in DOMAIN low THEN low[a] ELSE High
      IN  [ x |-> pos[1], y |-> pos[2], z |-> pos[3],
            visibility |-> IF mode = "visibility" THEN level ELSE 0,
            presence |-> IF mode = "presence" THEN level
                         ELSE IF mode = "zero" THEN 0 ELSE High ] ]

\* the record at position k (from 1) loses its z coordinate
DropZ(lms, k) ==
  [ i \in DOMAIN lms |->
      IF i = k THEN [x |-> lms[i].x, y |-> lms[i].y] ELSE lms[i] ]

BlendshapeInputs ==
  { Absent, Given(<<>>),
    Given(<< [mapping |-> TRUE, category_name |-> "jawOpen", score |-> 50],
             [mapping |-> TRUE, category_name |-> "browDownLeft", score |-> 5] >>),
    Given(<< [mapping |-> TRUE, score |-> 50], [mapping |-> FALSE] >>) }

Plain == MakeLandmarks(Len(NameSeq), CompactMap, BaseFace, {}, <<>>, "visibility")

\* lengths of the arrays analysed with the compiled-in map
DefaultLengths == {0, 1, 34, 264, 426, 478}

\* the calls the model makes: <<landmarks, blendshapes, index_map>>
\* confidence patterns on level, tilted and reversed eye lines
ConfidenceCalls ==
  { << MakeLandmarks(Len(NameSeq), CompactMap, Face(t), {}, l, m),
       Absent, Given(CompactMap) >> : t \in Tilts, l \in Lows, m \in Modes }
\* coincident landmarks
CollapseCalls ==
  { << MakeLandmarks(Len(NameSeq), CompactMap, Face(t), c, l, "visibility"),
       Absent, Given(CompactMap) >> :
       t \in {"level", "tilted"}, c \in Collapses,
       l \in {<<>>, [a \in {"R_eye_outer"} |-> 10]} }
\* arrays shorter than the map expects
ShortCalls ==
  { << MakeLandmarks(n, CompactMap, Face(t), {}, <<>>, "visibility"),
       Absent, Given(CompactMap) >> :
       t \in {"level", "tilted"}, n \in 0..Len(NameSeq) }
\* override maps that lack a name or send it outside the array
MapCalls ==
  { << MakeLandmarks(Len(NameSeq), CompactMap, Face(t), c, <<>>, "visibility"),
       Absent, Given(im) >> :
       t \in {"level", "tilted"},
       c \in {{}, {<<"R_cheek", "L_cheek">>}},
       im \in { [a \in Names \ {b} |-> CompactMap[a]] : b \in Names }
              \cup { [CompactMap EXCEPT ![b] = f] : b \in Names, f \in FarIndices } }
\* the compiled-in map: no override, or an empty one
DefaultCalls ==
  { << MakeLandmarks(n, FALLBACK_INDICES, Face(t), {}, <<>>, m), Absent, im >> :
       t \in {"level", "tilted"}, n \in DefaultLengths,
       m \in {"visibility", "presence"}, im \in {Absent, Given(<<>>)} }
\* override maps that lack one name, on arrays of full length
SparseMapCalls ==
  { << MakeLandmarks(478, FALLBACK_INDICES, Face(t), c, <<>>, "visibility"),
       Absent, Given([a \in Names \ {b} |-> FALLBACK_INDICES[a]]) >> :
       t \in {"level", "tilted"},
       c \in {{}, {<<"R_cheek", "L_cheek">>}},
       b \in {"L_eye_outer", "R_eye_outer", "L_cheek", "R_cheek", "nose_tip"} }
\* a small face at the left edge of the image: the bilateral pairs lie
\* far from x = 0.5 compared with the outer-eye width
EdgeFace ==
  [ BaseFace EXCEPT
      !["L_eye_outer"] = <<0, 6, 1>>, !["R_eye_outer"] = <<1, 6, 1>>,
      !["L_eye_inner"] = <<1, 6, 1>>, !["R_eye_inner"] = <<2, 6, 1>>,
      !["L_brow_inner"] = <<1, 5, 1>>, !["R_brow_inner"] = <<2, 5, 1>>,
      !["L_brow_outer"] = <<0, 4, 1>>, !["R_brow_outer"] = <<3, 4, 1>>,
      !["alare_L"] = <<1, 9, 2>>, !["alare_R"] = <<2, 9, 2>>,
      !["cheilion_L"] = <<1, 12, 2>>, !["cheilion_R"] = <<2, 12, 2>>,
      !["gonion_L"] = <<0, 13, 0>>, !["gonion_R"] = <<3, 13, 0>> ]
EdgeCalls ==
  { << MakeLandmarks(Len(NameSeq), CompactMap, EdgeFace, {}, l, "visibility"),
       Absent, Given(CompactMap) >> : l \in Lows }
\* blendshapes, and records without a z coordinate
OtherCalls ==
  { <<lms, bs, Given(CompactMap)>> :
       lms \in {Plain, DropZ(Plain, 3), <<>>}, bs \in BlendshapeInputs }

Calls ==
  ConfidenceCalls \cup CollapseCalls \cup ShortCalls \cup MapCalls
  \cup SparseMapCalls \cup DefaultCalls \cup EdgeCalls \cup OtherCalls

\* ------------------------------------------------------------ the machine
VARIABLES
  landmarks, blendshapes, index_map,   \* the arguments of the call
  pc,                                  \* the statement the call is at
  self,                                \* the fields __init__ sets
  eyes, nose, mouth, structure, symmetry, profile, golden,
  blendshape_summary,                  \* self.eyes ... set by analyze
  raised,                              \* the exception in flight, or ""
  result,                              \* what analyze_face_ratios returned
  ratio, deviation,                    \* one turn of the phi deviation loop
  landmark_files,                      \* the .landmark files not yet analysed
  golden_files,                        \* the .golden.json files not yet processed
  golden_data,                         \* self.data of the GoldenInterpreter
  insights,                            \* self.insights of the GoldenInterpreter
  results, summary                     \* of process_all_golden_files

vars ==
  << landmarks, blendshapes, index_map, pc, self, eyes, nose, mouth,
     structure, symmetry, profile, golden, blendshape_summary, raised, result,
     ratio, deviation, landmark_files, golden_files, golden_data, insights,
     results, summary >>

args == <<landmarks, blendshapes, index_map>>
interpretation ==
  <<landmark_files, golden_files, golden_data, insights, results, summary>>
regions ==
  <<eyes, nose, mouth, structure, symmetry, profile, golden, blendshape_summary>>

NewSelf ==
  [ blendshapes |-> <<>>, index_map |-> <<>>, fallback_indices_used |-> FALSE,
    points |-> <<>>, unit |-> Grid, visibility |-> <<>>, scale_basis |-> 0 ]

Init ==
  /\ \E call \in Calls :
       /\ landmarks = call[1]
       /\ blendshapes = call[2]
       /\ index_map = call[3]
  /\ pc = "call"
  /\ self = NewSelf
  /\ eyes = <<>> /\ nose = <<>> /\ mouth = <<>> /\ structure = <<>>
  /\ symmetry = <<>> /\ profile = <<>> /\ golden = <<>>
  /\ blendshape_summary = <<>>
  /\ raised = ""
  /\ result = <<>>
  /\ ratio = None /\ deviation = None
  /\ landmark_files = <<>> /\ golden_files = <<>>
  /\ golden_data = None /\ insights = None
  /\ results = <<>> /\ summary = None

\* an exception leaves the try block of analyze_face_ratios
Raise(error) == raised' = error /\ pc' = "except"

\* __init__, lines 105-121
Construct ==
  /\ pc = "call"
  /\ LET c == Convert(landmarks, blendshapes, index_map)
     IN  IF c.exc
         THEN Raise("KeyError") /\ UNCHANGED self
         ELSE /\ self' = [ blendshapes |-> c.blendshapes,
                           index_map |-> c.index_map,
                           fallback_indices_used |-> c.fallback_indices_used,
                           points |-> c.points, unit |-> c.unit,
                           visibility |-> c.visibility, scale_basis |-> 0 ]
              /\ pc' = "roll"
              /\ UNCHANGED raised
  /\ UNCHANGED <<args, ratio, deviation, interpretation, regions, result>>

\* a roll correction that also writes the rotated coordinates into the
\* caller's landmark records
RollCorrectionInPlace ==
  /\ pc = "roll"
  /\ LET r == _apply_roll_correction(self.points, self.unit, self.index_map)
     IN  IF r.exc
         THEN Raise("IndexError") /\ UNCHANGED <<self, landmarks>>
         ELSE /\ self' = [self EXCEPT !.points = r.points, !.unit = r.unit]
              /\ landmarks' =
                   [ i \in DOMAIN landmarks |->
                       [ landmarks[i] EXCEPT !.x = r.points[i][1],
                                             !.y = r.points[i][2] ] ]
              /\ pc' = "scale"
              /\ UNCHANGED raised
  /\ UNCHANGED <<blendshapes, index_map, ratio, deviation, interpretation,
                 regions, result>>

\* __init__, line 124
RollCorrection ==
  /\ pc = "roll"
  /\ LET r == _apply_roll_correction(self.points, self.unit, self.index_map)
     IN  IF r.exc
         THEN Raise("IndexError") /\ UNCHANGED self
         ELSE /\ self' = [self EXCEPT !.points = r.points, !.unit = r.unit]
              /\ pc' = "scale"
              /\ UNCHANGED raised
  /\ UNCHANGED <<args, ratio, deviation, interpretation, regions, result>>

\* __init__, line 127
ScaleBasis ==
  /\ pc = "scale"
  /\ self' = [self EXCEPT !.scale_basis =
                _compute_scale_basis(self.points, self.unit, self.index_map)]
  /\ pc' = "eyes"
  /\ UNCHANGED <<args, ratio, deviation, interpretation, regions, raised, result>>

AnalyzeEyes ==
  /\ pc = "eyes"
  /\ eyes' = analyze_eyes(self)
  /\ pc' = "nose"
  /\ UNCHANGED <<args, ratio, deviation, interpretation, self, nose, mouth, structure, symmetry, profile, golden,
                 blendshape_summary, raised, result>>

AnalyzeNose ==
  /\ pc = "nose"
  /\ nose' = analyze_nose(self)
  /\ pc' = "mouth"
  /\ UNCHANGED <<args, ratio, deviation, interpretation, self, eyes, mouth, structure, symmetry, profile, golden,
                 blendshape_summary, raised, result>>

AnalyzeMouth ==
  /\ pc = "mouth"
  /\ mouth' = analyze_mouth(self)
  /\ pc' = "structure"
  /\ UNCHANGED <<args, ratio, deviation, interpretation, self, eyes, nose, structure, symmetry, profile, golden,
                 blendshape_summary, raised, result>>

AnalyzeStructure ==
  /\ pc = "structure"
  /\ structure' = analyze_structure(self)
  /\ pc' = "symmetry"
  /\ UNCHANGED <<args, ratio, deviation, interpretation, self, eyes, nose, mouth, symmetry, profile, golden,
                 blendshape_summary, raised, result>>

AnalyzeSymmetry ==
  /\ pc = "symmetry"
  /\ symmetry' = analyze_symmetry(self)
  /\ pc' = "profile"
  /\ UNCHANGED <<args, ratio, deviation, interpretation, self, eyes, nose, mouth, structure, profile, golden,
                 blendshape_summary, raised, result>>

AnalyzeProfile ==
  /\ pc = "profile"
  /\ profile' = analyze_profile(self)
  /\ pc' = "golden"
  /\ UNCHANGED <<args, ratio, deviation, interpretation, self, eyes, nose, mouth, structure, symmetry, golden,
                 blendshape_summary, raised, result>>

\* golden diagnostics computed as if no Structure mapping existed
AnalyzeGoldenWithoutStructure ==
  /\ pc = "golden"
  /\ golden' = analyze_golden_diagnostics(self, <<>>)
  /\ pc' = "blendshapes"
  /\ UNCHANGED <<args, ratio, deviation, interpretation, self, eyes, nose, mouth, structure, symmetry, profile,
                 blendshape_summary, raised, result>>

AnalyzeGoldenDiagnostics ==
  /\ pc = "golden"
  /\ golden' = analyze_golden_diagnostics(self, structure)
  /\ pc' = "blendshapes"
  /\ UNCHANGED <<args, ratio, deviation, interpretation, self, eyes, nose, mouth, structure, symmetry, profile,
                 blendshape_summary, raised, result>>

AnalyzeBlendshapes ==
  /\ pc = "blendshapes"
  /\ LET bs == analyze_blendshapes(self)
     IN  IF bs.exc
         THEN Raise("AttributeError") /\ UNCHANGED blendshape_summary
         ELSE /\ blendshape_summary' = bs.summary
              /\ pc' = "pose"
              /\ UNCHANGED raised
  /\ UNCHANGED <<args, ratio, deviation, interpretation, self, eyes, nose, mouth, structure, symmetry, profile,
                 golden, result>>

\* analyze, lines 654-672, and the return of analyze_face_ratios
Return ==
  /\ pc = "pose"
  /\ result' = Compile(self, _estimate_pose(self), eyes, nose, mouth, structure,
                       symmetry, profile, golden, blendshape_summary)
  /\ pc' = "done"
  /\ UNCHANGED <<args, ratio, deviation, interpretation, self, regions, raised>>

\* analyze_face_ratios, lines 730-736
Except ==
  /\ pc = "except"
  /\ result' = Envelope(raised)
  /\ pc' = "done"
  /\ UNCHANGED <<args, ratio, deviation, interpretation, self, regions, raised>>

Next ==
  \/ Construct
  \/ RollCorrection
  \/ ScaleBasis
  \/ AnalyzeEyes
  \/ AnalyzeNose
  \/ AnalyzeMouth
  \/ AnalyzeStructure
  \/ AnalyzeSymmetry
  \/ AnalyzeProfile
  \/ AnalyzeGoldenDiagnostics
  \/ AnalyzeBlendshapes
  \/ Return
  \/ Except

Spec == Init /\ [][Next]_vars

\* ------------------------------------- the phi deviation loop, lines 577-581
\* one turn of the loop for a ratio n * PHI / PhiSteps
PhiInit ==
  /\ landmarks = <<>> /\ blendshapes = Absent /\ index_map = Absent
  /\ pc = "ratio"
  /\ self = NewSelf
  /\ eyes = <<>> /\ nose = <<>> /\ mouth = <<>> /\ structure = <<>>
  /\ symmetry = <<>> /\ profile = <<>> /\ golden = <<>>
  /\ blendshape_summary = <<>>
  /\ raised = ""
  /\ result = <<>>
  /\ \E n \in 0..(2 * PhiSteps) : ratio = PhiMultiple(n, PhiSteps)
  /\ deviation = None
  /\ landmark_files = <<>> /\ golden_files = <<>>
  /\ golden_data = None /\ insights = None
  /\ results = <<>> /\ summary = None

Deviate ==
  /\ pc = "ratio"
  /\ deviation' = create_metric(PhiDeviation(ratio), "2D", <<>>, TRUE, 80)
  /\ pc' = "deviation"
  /\ UNCHANGED <<args, self, regions, raised, result, ratio, interpretation>>

PhiNext == Deviate

PhiSpec == PhiInit /\ [][PhiNext]_vars

\* the call as a function of its arguments agrees with the run
FunctionalView ==
  pc = "done" => result = analyze_face_ratios(landmarks, blendshapes, index_map)

\* ------------------------------------------------------------- properties
RegionKeys ==
  { "normalization", "pose_estimation", "eyes", "nose", "mouth", "structure",
    "symmetry", "profile", "golden_diagnostics" }

NormalShape(r) ==
  /\ RegionKeys \subseteq DOMAIN r
  /\ "error" \notin DOMAIN r
  /\ "status" \notin DOMAIN r

EnvelopeShape(r) ==
  /\ "error" \in DOMAIN r
  /\ "status" \in DOMAIN r
  /\ r.status = "failed"
  /\ DOMAIN r \cap RegionKeys = {}

Returned == pc = "done"
ReturnedNormal == pc = "done" /\ NormalShape(result)

\* the MetricValue records of a normal result: <<mapping, key, record>>
MetricValues(r) ==
  UNION { {<<g, k, r[g][k]>> : k \in DOMAIN r[g]} :
          g \in {"eyes", "nose", "mouth", "structure", "profile"} }
  \cup { <<"symmetry", k, r.symmetry[k]>> :
         k \in DOMAIN r.symmetry \ {"bilateral_feature_deltas"} }
  \cup { <<"golden_diagnostics", k, r.golden_diagnostics[k]>> :
         k \in DOMAIN r.golden_diagnostics \ {"phi_deviations"} }
  \cup { <<"phi_deviations", k, r.golden_diagnostics.phi_deviations[k]>> :
         k \in DOMAIN r.golden_diagnostics.phi_deviations }

\* every key a normal result reports a number under
PresentKeys(r) ==
  {m[2] : m \in MetricValues(r)}
  \cup DOMAIN r.symmetry.bilateral_feature_deltas
  \cup DOMAIN r.pose_estimation

Eyes4 == {"L_eye_outer", "L_eye_inner", "R_eye_inner", "R_eye_outer"}

\* the named points whose coordinates enter each number (sections 4.3,
\* 4.4 and 4.6 of the specification); glabella is the midpoint of the
\* inner brows; the midline score averages whichever pairs exist
RequiredPoints ==
  [ fissure_length_L |-> {"L_eye_outer", "L_eye_inner"},
    fissure_length_R |-> {"R_eye_outer", "R_eye_inner"},
    canthal_tilt_deg_L |-> {"L_eye_outer", "L_eye_inner"},
    canthal_tilt_deg_R |-> {"R_eye_outer", "R_eye_inner"},
    intercanthal_over_eye_width |-> Eyes4,
    brow_height_L |-> {"L_brow_inner", "L_eye_inner"},
    brow_height_R |-> {"R_brow_inner", "R_eye_inner"},
    brow_slope_L |-> {"L_brow_inner", "L_brow_outer"},
    brow_slope_R |-> {"R_brow_inner", "R_brow_outer"},
    alar_width_over_inter_eye |->
      {"alare_L", "alare_R", "L_eye_inner", "R_eye_inner"},
    alar_width_normalized |-> {"alare_L", "alare_R"},
    nasal_length_over_face_height |-> {"nasion", "subnasale", "chin_tip"},
    tip_projection_3D_over_IPD |-> {"nose_tip", "subnasale"},
    nasal_tip_to_upper_lip_angle_deg |->
      {"nose_tip", "subnasale", "labiale_superius"},
    mouth_width_over_IPD |-> {"cheilion_L", "cheilion_R"},
    smile_arc_curvature |-> {"cheilion_L", "stomion", "cheilion_R"},
    upper_to_lower_lip_ratio |->
      {"labiale_superius", "stomion", "labiale_inferius"},
    cupid_bow_depth |-> {"labiale_superius", "stomion"},
    upper_to_middle_third |->
      {"L_brow_inner", "R_brow_inner", "nasion", "subnasale"},
    lower_to_middle_third |-> {"subnasale", "chin_tip", "nasion"},
    face_height_over_width |-> {"nasion", "chin_tip", "L_cheek", "R_cheek"},
    gonial_width_normalized |-> {"gonion_L", "gonion_R"},
    mandibular_angle_deg |-> {"gonion_L", "menton", "gonion_R"},
    chin_prominence_3D |-> {"chin_tip", "subnasale"},
    midline_symmetry_score |-> {},
    e_line_upper_lip |-> {"nose_tip", "chin_tip", "labiale_superius"},
    e_line_lower_lip |-> {"nose_tip", "chin_tip", "labiale_inferius"},
    tip_projection_over_chin_projection |-> {"nose_tip", "chin_tip"},
    midface_depth_over_face_width |-> {"L_cheek", "R_cheek"},
    thirds_evenness |-> {"nasion", "subnasale"},
    fifths_evenness |-> Eyes4,
    eye_to_mouth_width_phi_deviation |->
      {"L_eye_outer", "R_eye_outer", "cheilion_L", "cheilion_R"},
    face_height_to_width_phi_deviation |->
      {"nasion", "chin_tip", "L_cheek", "R_cheek"},
    nose_mouth_to_mouth_chin_phi_deviation |->
      {"subnasale", "stomion", "chin_tip"},
    L_eye_outer_vs_R_eye_outer |-> {"L_eye_outer", "R_eye_outer"},
    L_eye_inner_vs_R_eye_inner |-> {"L_eye_inner", "R_eye_inner"},
    L_brow_inner_vs_R_brow_inner |-> {"L_brow_inner", "R_brow_inner"},
    L_brow_outer_vs_R_brow_outer |-> {"L_brow_outer", "R_brow_outer"},
    alare_L_vs_alare_R |-> {"alare_L", "alare_R"},
    cheilion_L_vs_cheilion_R |-> {"cheilion_L", "cheilion_R"},
    gonion_L_vs_gonion_R |-> {"gonion_L", "gonion_R"},
    roll_deg |-> {"L_ear_top", "R_ear_top"},
    yaw_deg |-> {"nose_tip"},
    pitch_deg |-> {"nose_tip", "chin_tip"} ]

\* the arguments are landmark records with coordinates, and blendshape
\* entries that are mappings
WellFormedCall ==
  /\ \A i \in DOMAIN landmarks : WellFormed(landmarks[i])
  /\ blendshapes.given => \A i \in DOMAIN blendshapes.v : blendshapes.v[i].mapping

\* name P resolves through the index map in use to a landmark of the input
Resolves(P) ==
  /\ P \in DOMAIN self.index_map
  /\ self.index_map[P] \in 0..(Len(landmarks) - 1)

InputAllZero(key) ==
  \A i \in DOMAIN landmarks : Confidence(landmarks[i], key) = 0

\* the confidence signal of the landmark of P: its visibility, or its
\* presence when every visibility of the input is zero
Signal(P) ==
  LET lm == At(landmarks, self.index_map[P])
  IN  IF InputAllZero("visibility") THEN Confidence(lm, "presence")
      ELSE Confidence(lm, "visibility")

\* C1: every call returns either a normal result (all region keys, no
\* 'error', no 'status') or the error envelope ('error', status "failed",
\* no region key), never a mixture of the two.
C1_ResultShape ==
  Returned => (NormalShape(result) /\ ~EnvelopeShape(result))
              \/ (EnvelopeShape(result) /\ ~NormalShape(result))

\* a call that failed after the region mappings were computed
C1_Witness ==
  /\ Returned /\ EnvelopeShape(result)
  /\ raised = "AttributeError" /\ eyes /= <<>>

\* C2 as stated: a number that needs point P is reported only if P
\* resolves and its confidence signal is at least 0.3, also when every
\* visibility and every presence is zero.
C2_Original ==
  ReturnedNormal =>
    \A k \in PresentKeys(result) : \A P \in RequiredPoints[k] :
      Resolves(P) /\ Signal(P) >= visibility_threshold

\* C2 amended: a number that needs point P is reported only if P resolves
\* to a landmark of the input and either its confidence signal is at least
\* 0.3 or every visibility and every presence of the input is zero (the
\* threshold is then not applied).
C2_ConfidenceGate ==
  ReturnedNormal =>
    \A k \in PresentKeys(result) : \A P \in RequiredPoints[k] :
      /\ Resolves(P)
      /\ \/ Signal(P) >= visibility_threshold
         \/ InputAllZero("visibility") /\ InputAllZero("presence")

\* presence stands in for visibility, one landmark is below the threshold
\* and the numbers that do not need it are reported
C2_Witness ==
  /\ ReturnedNormal
  /\ InputAllZero("visibility") /\ ~InputAllZero("presence")
  /\ Resolves("nasion") /\ Signal("nasion") < visibility_threshold
  /\ "fissure_length_L" \in DOMAIN result.eyes
  /\ "nasal_length_over_face_height" \notin DOMAIN result.nose

\* C3 as stated: every MetricValue record of a normal result has a value
\* that is not null and valid = true.
C3_NoNullValue ==
  ReturnedNormal =>
    \A m \in MetricValues(result) : m[3].value /= NoneValue /\ m[3].valid

\* the input coordinates (x, y) of the landmark of P
Raw2D(P) ==
  LET lm == At(landmarks, self.index_map[P]) IN <<lm.x, lm.y>>

KeyReported(r, mapping, key) ==
  IF mapping = "phi_deviations"
  THEN key \in DOMAIN r.golden_diagnostics.phi_deviations
  ELSE key \in DOMAIN r[mapping]

\* <<mapping, key, a, b>>: the ratio under key divides by the planar
\* distance between the points a and b
RatioDenominators ==
  { <<"eyes", "intercanthal_over_eye_width", "L_eye_outer", "R_eye_outer">>,
    <<"nose", "alar_width_over_inter_eye", "L_eye_inner", "R_eye_inner">>,
    <<"nose", "nasal_length_over_face_height", "nasion", "chin_tip">>,
    <<"mouth", "upper_to_lower_lip_ratio", "stomion", "labiale_inferius">>,
    <<"structure", "upper_to_middle_third", "nasion", "subnasale">>,
    <<"structure", "lower_to_middle_third", "nasion", "subnasale">>,
    <<"structure", "face_height_over_width", "L_cheek", "R_cheek">>,
    <<"profile", "midface_depth_over_face_width", "L_cheek", "R_cheek">>,
    <<"phi_deviations", "eye_to_mouth_width_phi_deviation",
      "cheilion_L", "cheilion_R">>,
    <<"phi_deviations", "face_height_to_width_phi_deviation",
      "L_cheek", "R_cheek">>,
    <<"phi_deviations", "nose_mouth_to_mouth_chin_phi_deviation",
      "stomion", "chin_tip">> }

\* C4 as stated: a ratio whose denominator is below 1e-8 in absolute value
\* has no key in the result (the denominator of
\* tip_projection_over_chin_projection is the depth |z| of chin_tip).
C4_GuardedRatios ==
  ReturnedNormal =>
    /\ \A d \in RatioDenominators :
         (Resolves(d[3]) /\ Resolves(d[4]) /\ Raw2D(d[3]) = Raw2D(d[4]))
           => ~KeyReported(result, d[1], d[2])
    /\ (Resolves("chin_tip") /\ At(landmarks, self.index_map["chin_tip"]).z = 0)
         => ~KeyReported(result, "profile", "tip_projection_over_chin_projection")

\* C5 as stated: an empty landmark sequence yields the error envelope.
C5_EmptyIsFailure ==
  (Returned /\ landmarks = <<>>) => EnvelopeShape(result)

\* C6: a non-empty sequence of landmark records that all carry x, y, z
\* (with blendshape entries that are mappings) yields a normal result,
\* whatever names are missing, whatever the confidences and whatever
\* denominators vanish.
C6_WellFormedIsNormal ==
  (Returned /\ landmarks /= <<>> /\ WellFormedCall) => NormalShape(result)

\* a short array: roll correction met an index outside it, the call
\* returned a normal result with the numbers that could be computed
C6_Witness ==
  /\ ReturnedNormal /\ landmarks /= <<>>
  /\ Len(landmarks) < Len(NameSeq)
  /\ Resolves("L_eye_outer") /\ ~Resolves("R_eye_outer")
  /\ "yaw_deg" \in DOMAIN result.pose_estimation
  /\ "fissure_length_R" \notin DOMAIN result.eyes

EyeOuter == {"L_eye_outer", "R_eye_outer"}
Cheeks == {"L_cheek", "R_cheek"}

\* the input coordinates as __init__ stores them
RawPoints ==
  [i \in DOMAIN landmarks |-> <<landmarks[i].x, landmarks[i].y, landmarks[i].z>>]

\* the planar distance, in grid units, between the input landmarks of a, b
RawWidth(a, b) ==
  ISqrt(Sq(Raw2D(a)[1] - Raw2D(b)[1]) + Sq(Raw2D(a)[2] - Raw2D(b)[2]))

Usable(a, b) == Resolves(a) /\ Resolves(b) /\ Raw2D(a) /= Raw2D(b)

\* the index map sends P to an index at or beyond the end of the array
BeyondArray(P) ==
  P \in DOMAIN self.index_map /\ self.index_map[P] >= Len(landmarks)

\* C7: a name whose index is >= the number of landmarks is unavailable to
\* every consumer: the call returns a normal result, no number that needs
\* the point is reported, roll correction is skipped when it is an
\* outer-eye point, and the scale basis is not taken from its pair.
C7_BeyondArrayIsUnavailable ==
  (Returned /\ WellFormedCall) =>
    /\ NormalShape(result)
    /\ \A P \in Names : BeyondArray(P) =>
         /\ \A k \in PresentKeys(result) : P \notin RequiredPoints[k]
         /\ P \in EyeOuter =>
              /\ self.points = RawPoints /\ self.unit = Grid
              /\ self.scale_basis =
                   IF Usable("L_cheek", "R_cheek")
                   THEN RawWidth("L_cheek", "R_cheek") ELSE Grid
         /\ P \in Cheeks =>
              IF Usable("L_eye_outer", "R_eye_outer")
              THEN self.scale_basis * Grid
                     = RawWidth("L_eye_outer", "R_eye_outer") * self.unit
              ELSE self.scale_basis = self.unit

\* a full array whose map sends L_cheek beyond it
C7_Witness ==
  /\ ReturnedNormal
  /\ Len(landmarks) = Len(NameSeq) /\ BeyondArray("L_cheek")
  /\ "fissure_length_L" \in DOMAIN result.eyes
  /\ "face_height_over_width" \notin DOMAIN result.structure
  /\ "midface_depth_over_face_width" \notin DOMAIN result.profile

\* the signal that carries the confidence of this input
SignalKey == IF InputAllZero("visibility") THEN "presence" ELSE "visibility"

\* every named point is available to the analyzers
FullInput ==
  \A P \in Names : Resolves(P) /\ Signal(P) >= visibility_threshold

\* the input with the confidence of the landmark of P lowered to 0.1
WithoutPoint(P) ==
  [ i \in DOMAIN landmarks |->
      IF i = self.index_map[P] + 1
      THEN [landmarks[i] EXCEPT ![SignalKey] = 10] ELSE landmarks[i] ]

Range(f) == {f[i] : i \in DOMAIN f}

\* C8 as stated: when one named point of a full input is made unavailable,
\* every metric whose source_points lists it is absent, and every other
\* metric of the full run is present with the identical record.
C8_OmissionNotCorruption ==
  (ReturnedNormal /\ FullInput) =>
    \A P \in Names :
      LET r == analyze_face_ratios(WithoutPoint(P), blendshapes, index_map)
      IN  /\ NormalShape(r)
          /\ \A m \in MetricValues(r) : P \notin Range(m[3].source_points)
          /\ \A m \in MetricValues(result) :
               P \notin Range(m[3].source_points) => m \in MetricValues(r)

ScaleDerived ==
  pc \in { "eyes", "nose", "mouth", "structure", "symmetry", "profile",
           "golden", "blendshapes", "pose" }

\* the index the normalizer reads for a name: the entry of the index map,
\* or the compiled-in index when the map has no entry
NormalizerIndex(P) == DictGetDefault(self.index_map, P, FALLBACK_INDICES[P])

\* no positive width can be read for the pair: an index is outside the
\* array or the two input landmarks coincide in x and y
NoWidth(a, b) ==
  \/ ~InRange(landmarks, NormalizerIndex(a))
  \/ ~InRange(landmarks, NormalizerIndex(b))
  \/ LET la == At(landmarks, NormalizerIndex(a))
         lb == At(landmarks, NormalizerIndex(b))
     IN  la.x = lb.x /\ la.y = lb.y

FullyDegenerate ==
  NoWidth("L_eye_outer", "R_eye_outer") /\ NoWidth("L_cheek", "R_cheek")

\* C9: the scale basis is strictly positive for every input, and exactly
\* 1.0 when neither an outer-eye width nor a cheek width can be read.
C9_ScalePositive ==
  /\ ScaleDerived =>
       /\ self.scale_basis > 0
       /\ FullyDegenerate => self.scale_basis = self.unit
  /\ ReturnedNormal =>
       /\ result.normalization.scale_basis.v[1] > 0
       /\ result.normalization.scale_basis.v[2] > 0
       /\ FullyDegenerate => result.normalization.scale_basis = One

\* a full array whose outer-eye index is beyond it and whose cheeks coincide
C9_Witness ==
  /\ ReturnedNormal /\ FullyDegenerate
  /\ Len(landmarks) = Len(NameSeq)
  /\ InRange(landmarks, NormalizerIndex("L_cheek"))
  /\ InRange(landmarks, NormalizerIndex("R_cheek"))
  /\ result.normalization.scale_basis = One

Available(P) == _get_point(self, P) /= None
WidthOf(a, b) == dist(_get_point(self, a), _get_point(self, b), "2D")

\* C10 as stated: the scale basis is the outer-eye width when both
\* outer-eye points are available and distinct, else the cheek width when
\* both cheek points are available and distinct, else 1.0.
C10_FallbackOrder ==
  ScaleDerived =>
    self.scale_basis =
      IF Available("L_eye_outer") /\ Available("R_eye_outer")
         /\ WidthOf("L_eye_outer", "R_eye_outer") > 0
      THEN ISqrt(WidthOf("L_eye_outer", "R_eye_outer"))
      ELSE IF Available("L_cheek") /\ Available("R_cheek")
              /\ WidthOf("L_cheek", "R_cheek") > 0
      THEN ISqrt(WidthOf("L_cheek", "R_cheek"))
      ELSE self.unit

\* __init__ has applied roll correction and the call has not failed
RollDone ==
  \/ pc = "scale"
  \/ ScaleDerived
  \/ ReturnedNormal

\* C11 as stated: when an outer-eye point is unavailable (name not
\* resolved, index outside the array or confidence below 0.3) the points
\* the analyzers use are the input coordinates unchanged, and the call
\* does not fail.
C11_RollSkipped ==
  /\ (RollDone /\ ~(Available("L_eye_outer") /\ Available("R_eye_outer")))
       => (self.points = RawPoints /\ self.unit = Grid)
  /\ (Returned /\ WellFormedCall) => NormalShape(result)

\* C12: after roll correction, when both outer-eye points are available
\* and differ in x or y, they have the same y and R_eye_outer has the
\* larger x.
C12_EyeLineLevel ==
  (RollDone /\ Available("L_eye_outer") /\ Available("R_eye_outer")
     /\ Raw2D("L_eye_outer") /= Raw2D("R_eye_outer"))
    => /\ _get_point(self, "L_eye_outer")[2] = _get_point(self, "R_eye_outer")[2]
       /\ _get_point(self, "L_eye_outer")[1] < _get_point(self, "R_eye_outer")[1]

\* a tilted eye line that roll correction has rotated
C12_Witness ==
  /\ ReturnedNormal
  /\ Available("L_eye_outer") /\ Available("R_eye_outer")
  /\ Raw2D("L_eye_outer")[2] /= Raw2D("R_eye_outer")[2]
  /\ self.unit /= Grid /\ self.points /= RawPoints

\* the names that come in a left and a right version
SidePairs ==
  { <<"L_eye_outer", "R_eye_outer">>, <<"L_eye_inner", "R_eye_inner">>,
    <<"L_brow_inner", "R_brow_inner">>, <<"L_brow_outer", "R_brow_outer">>,
    <<"L_pupil", "R_pupil">>, <<"L_cheek", "R_cheek">>,
    <<"L_ear_top", "R_ear_top">>, <<"alare_L", "alare_R">>,
    <<"cheilion_L", "cheilion_R">>, <<"gonion_L", "gonion_R">> }

SwapName(a) ==
  IF \E p \in SidePairs : p[1] = a
  THEN (CHOOSE p \in SidePairs : p[1] = a)[2]
  ELSE IF \E p \in SidePairs : p[2] = a
  THEN (CHOOSE p \in SidePairs : p[2] = a)[1]
  ELSE a

AllResolve == \A P \in Names : Resolves(P)

\* the horizontal mirror of the input: x becomes 1 - x and the record of
\* a named landmark is taken from the name of the other side
MirrorLandmarks ==
  [ i \in DOMAIN landmarks |->
      LET named == {a \in Names : self.index_map[a] = i - 1}
          from == IF named = {} THEN i
                  ELSE self.index_map[SwapName(CHOOSE a \in named : TRUE)] + 1
      IN  [landmarks[from] EXCEPT !.x = Grid - @] ]

PairKey(i) == pairs[i][1] \o "_vs_" \o pairs[i][2]

SameSymmetry(a, b) ==
  /\ ("midline_symmetry_score" \in DOMAIN a) = ("midline_symmetry_score" \in DOMAIN b)
  /\ "midline_symmetry_score" \in DOMAIN a =>
       a["midline_symmetry_score"].value = b["midline_symmetry_score"].value
  /\ DOMAIN a.bilateral_feature_deltas = DOMAIN b.bilateral_feature_deltas
  /\ \A k \in DOMAIN a.bilateral_feature_deltas :
       a.bilateral_feature_deltas[k] = b.bilateral_feature_deltas[k]

\* C13 as stated: a landmark set and its horizontal mirror, tilted eye
\* lines included, get the same midline_symmetry_score and the same
\* bilateral delta for each pair.
C13_MirrorLaw ==
  (ReturnedNormal /\ AllResolve) =>
    LET r == analyze_face_ratios(MirrorLandmarks, blendshapes, index_map)
    IN  NormalShape(r) /\ SameSymmetry(result.symmetry, r.symmetry)

\* every named point is confident and the landmarks of the two sides are
\* mirror images about x = 0.5, the left outer eye on the left
SymmetricConfident ==
  /\ AllResolve
  /\ \A P \in Names :
       /\ Signal(P) >= visibility_threshold
       /\ LET a == At(landmarks, self.index_map[P])
              b == At(landmarks, self.index_map[SwapName(P)])
          IN  a.x + b.x = Grid /\ a.y = b.y /\ a.z = b.z
  /\ Raw2D("L_eye_outer")[1] < Raw2D("R_eye_outer")[1]

\* C14 as stated: for a symmetric face with a level eye line and confident
\* points the midline_symmetry_score is at least 0.95 and every bilateral
\* delta is below 0.01.
C14_SymmetricFace ==
  (ReturnedNormal /\ SymmetricConfident) =>
    /\ "midline_symmetry_score" \in DOMAIN result.symmetry
    /\ LET v == result.symmetry["midline_symmetry_score"].value.v
       IN  100 * v[1] >= 95 * v[2]
    /\ \A k \in DOMAIN result.symmetry.bilateral_feature_deltas :
         LET d == result.symmetry.bilateral_feature_deltas[k].v
         IN  100 * d[1] < d[2]

\* the input with every visibility replaced by the presence of its record
PresenceAsVisibility ==
  [ i \in DOMAIN landmarks |->
      [landmarks[i] EXCEPT !.visibility = Confidence(landmarks[i], "presence")] ]

\* C15: when every visibility is 0.0 the presence values take the place of
\* the visibility values in every threshold check: the result (metric keys
\* and values) is the one of the same coordinates with visibility equal to
\* those presence values, in particular 0.9 on every landmark.
C15_PresenceReplacesVisibility ==
  (ReturnedNormal /\ landmarks /= <<>> /\ InputAllZero("visibility")) =>
    result = analyze_face_ratios(PresenceAsVisibility, blendshapes, index_map)

\* every visibility 0.0 and every presence 0.9, metrics reported
C15_Witness ==
  /\ ReturnedNormal /\ Len(landmarks) = Len(NameSeq)
  /\ \A i \in DOMAIN landmarks :
       landmarks[i].visibility = 0 /\ landmarks[i].presence = High
  /\ "fissure_length_L" \in DOMAIN result.eyes
  /\ "midline_symmetry_score" \in DOMAIN result.symmetry

\* C16: midline_symmetry_score is present exactly when some bilateral pair
\* has both points available; its value is max(0, min(1, 1 - avg / 5)) for
\* the average avg of the midline deviations, hence within [0, 1].
C16_MidlineScore ==
  ReturnedNormal =>
    LET available == {i \in DOMAIN pairs : PairAvailable(self, i)}
        sum == SumMidline(self, Len(pairs))
        den == 2 * SymmetryDivisor * Grid * self.scale_basis * Cardinality(available)
    IN  /\ ("midline_symmetry_score" \in DOMAIN result.symmetry) = (available /= {})
        /\ available /= {} =>
             LET v == result.symmetry["midline_symmetry_score"].value
             IN  /\ v.k = "rat"
                 /\ 0 <= v.v[1] /\ v.v[1] <= v.v[2] /\ 0 < v.v[2]
                 /\ v = IF sum >= den THEN Rat(0, 1) ELSE Rat(den - sum, den)

\* deviations above 5 on average: the score is clamped to 0
C16_Witness ==
  /\ ReturnedNormal
  /\ \E i \in DOMAIN pairs : PairAvailable(self, i)
  /\ SumMidline(self, Len(pairs))
       > 2 * SymmetryDivisor * Grid * self.scale_basis
           * Cardinality({i \in DOMAIN pairs : PairAvailable(self, i)})
  /\ result.symmetry["midline_symmetry_score"].value = Rat(0, 1)

\* C17: thirds_evenness is reported only when the Structure mapping of the
\* same analysis holds both upper_to_middle_third and
\* lower_to_middle_third, and it is computed from those two ratios.
C17_ThirdsEvenness ==
  /\ "thirds_evenness" \in DOMAIN golden =>
       /\ "upper_to_middle_third" \in DOMAIN structure
       /\ "lower_to_middle_third" \in DOMAIN structure
       /\ golden["thirds_evenness"].value =
            ThirdsEvenness(<< structure["upper_to_middle_third"].value,
                              structure["lower_to_middle_third"].value >>)
  /\ ReturnedNormal =>
       ("thirds_evenness" \in DOMAIN result.golden_diagnostics =>
          /\ result.golden_diagnostics = golden /\ result.structure = structure
          /\ "upper_to_middle_third" \in DOMAIN result.structure
          /\ "lower_to_middle_third" \in DOMAIN result.structure)

C17_Witness ==
  /\ ReturnedNormal
  /\ "thirds_evenness" \in DOMAIN result.golden_diagnostics
  /\ Len(result.golden_diagnostics["thirds_evenness"].value.v) = 2

NormalizationSteps == {"call", "roll", "scale"}
AnalyzerSteps ==
  {"eyes", "nose", "mouth", "structure", "symmetry", "profile", "golden", "blendshapes"}

\* a step of normalization: no region mapping exists or is computed
NormalizationStep ==
  pc \in NormalizationSteps =>
    (regions' = regions /\ \A i \in DOMAIN regions : regions[i] = None)

\* a step of an analyzer works on the normalized points and scale basis
AnalyzerStep ==
  pc \in AnalyzerSteps =>
    /\ self' = self
    /\ self.scale_basis > 0
    /\ self.points = _apply_roll_correction(RawPoints, Grid, self.index_map).points

\* the golden diagnostics step
GoldenStep ==
  pc = "golden" =>
    /\ eyes = analyze_eyes(self) /\ structure = analyze_structure(self)
    /\ eyes' = eyes /\ structure' = structure
    /\ golden' = analyze_golden_diagnostics(self, structure)

\* C18: within one call no region mapping is computed before roll
\* correction and the scale basis are done, the analyzers leave the
\* normalized points and the scale basis alone, and golden diagnostics runs
\* when the Eyes and Structure mappings of this call exist, reads the
\* thirds from that Structure mapping and changes neither mapping.
C18_Ordering ==
  [][NormalizationStep /\ AnalyzerStep /\ GoldenStep]_vars

\* golden diagnostics has run on a Structure mapping that holds the thirds
C18_Witness ==
  /\ pc = "blendshapes"
  /\ "upper_to_middle_third" \in DOMAIN structure
  /\ "thirds_evenness" \in DOMAIN golden
  /\ "fissure_length_L" \in DOMAIN eyes
  /\ self.scale_basis > 0

\* C19: the phi deviation of a ratio is |ratio - PHI| / PHI: for the ratio
\* n * PHI / d it is |n - d| / d, never negative, and exactly 0 when (and
\* only when) the ratio equals PHI.
C19_PhiDeviation ==
  pc = "deviation" =>
    /\ deviation.value.k = "rat"
    /\ deviation.value.v[1] >= 0 /\ deviation.value.v[2] > 0
    /\ deviation.value = Rat(Abs(ratio.v[1] - ratio.v[2]), ratio.v[2])
    /\ (ratio = PhiMultiple(1, 1)) = (deviation.value = Rat(0, 1))

\* the ratio is PHI itself and the deviation is 0
C19_Witness ==
  /\ pc = "deviation"
  /\ ratio = PhiMultiple(1, 1)
  /\ deviation.value = Rat(0, 1)

\* the point P can be read from the input: its index is inside the array
\* and its confidence signal passes the threshold (or every visibility
\* and presence is zero)
AvailableInput(P) ==
  /\ Resolves(P)
  /\ \/ Signal(P) >= visibility_threshold
     \/ InputAllZero("visibility") /\ InputAllZero("presence")

\* C20: the pose estimator does not fail the call and reports exactly the
\* angles whose inputs are available: roll_deg iff both ear-top points,
\* yaw_deg iff nose_tip, pitch_deg iff nose_tip and chin_tip; no other key.
C20_PoseKeys ==
  /\ (pc = "done" /\ raised = "") => ReturnedNormal
  /\ ReturnedNormal =>
       LET pose == result.pose_estimation
       IN  /\ DOMAIN pose \subseteq {"roll_deg", "yaw_deg", "pitch_deg"}
           /\ ("roll_deg" \in DOMAIN pose)
                = (AvailableInput("L_ear_top") /\ AvailableInput("R_ear_top"))
           /\ ("yaw_deg" \in DOMAIN pose) = AvailableInput("nose_tip")
           /\ ("pitch_deg" \in DOMAIN pose)
                = (AvailableInput("nose_tip") /\ AvailableInput("chin_tip"))

\* chin_tip below the threshold: yaw and roll reported, pitch omitted
C20_Witness ==
  /\ ReturnedNormal
  /\ Resolves("chin_tip") /\ ~AvailableInput("chin_tip")
  /\ DOMAIN result.pose_estimation = {"roll_deg", "yaw_deg"}

\* C21: normalization.fallback_indices_used is false whenever the caller
\* supplied an override index map (an empty one included) and true whenever
\* no map was supplied.
C21_FallbackFlag ==
  /\ pc \notin {"call", "except"} /\ raised = ""
       => self.fallback_indices_used = ~index_map.given
  /\ ReturnedNormal =>
       result.normalization.fallback_indices_used = ~index_map.given

\* an empty override map: the compiled-in table is in use, the flag is false
C21_Witness ==
  /\ ReturnedNormal
  /\ index_map = Given(<<>>)
  /\ self.index_map = FALLBACK_INDICES
  /\ result.normalization.fallback_indices_used = FALSE

\* ==================================================== golden.final.py
\* --------------------------------------------------------------- bounds
\* largest number of .golden.json files in a directory processed together
MaxFiles == 3

\* ------------------------------------------------- numbers and texts
\* the model holds the number exactly: a rational or the root of one
Exact(value) == value.k \in {"rat", "sqrt"}
\* value < n / d and value > n / d for an exact value (n >= 0, d > 0)
Less(value, n, d) ==
  IF value.k = "rat" THEN value.v[1] * d < n * value.v[2]
  ELSE value.v[1] * d * d < n * n * value.v[2]
Greater(value, n, d) ==
  IF value.k = "rat" THEN value.v[1] * d > n * value.v[2]
  ELSE value.v[1] * d * d > n * n * value.v[2]
\* the text fn yields for a number the model holds as the argument list of
\* a transcendental function: the text is never empty
Described(fn, value) == [fn |-> fn, of |-> value]
\* f"{value:.0%}"
Percent(value) == Described("percent", value)
\* sum(values) / len(values)
Mean(values) == [k |-> "mean", v |-> values]
\* Python's None, as a default or as a stored null value
IsNone(v) == v = None \/ v = NoneValue

\* if v < a: x / elif v < b: y / else: z
Rising(fn, v, a, x, b, y, z) ==
  IF ~Exact(v) THEN Described(fn, v)
  ELSE IF Less(v, a[1], a[2]) THEN x
  ELSE IF Less(v, b[1], b[2]) THEN y ELSE z
\* if v > a: x / elif v > b: y / else: z
Falling(fn, v, a, x, b, y, z) ==
  IF ~Exact(v) THEN Described(fn, v)
  ELSE IF Greater(v, a[1], a[2]) THEN x
  ELSE IF Greater(v, b[1], b[2]) THEN y ELSE z
\* if a <= v <= b: x / elif v < a: y / else: z
Banded(fn, v, a, b, x, y, z) ==
  IF ~Exact(v) THEN Described(fn, v)
  ELSE IF ~Less(v, a[1], a[2]) /\ ~Greater(v, b[1], b[2]) THEN x
  ELSE IF Less(v, a[1], a[2]) THEN y ELSE z

\* lines 24-39
percentage_to_description(value) ==
  IF ~Exact(value) THEN Described("percentage_to_description", value)
  ELSE IF ~Less(value, 19, 20) THEN "nearly perfect"
  ELSE IF ~Less(value, 17, 20) THEN "excellent"
  ELSE IF ~Less(value, 3, 4) THEN "very good"
  ELSE IF ~Less(value, 13, 20) THEN "good"
  ELSE IF ~Less(value, 11, 20) THEN "moderate"
  ELSE IF ~Less(value, 9, 20) THEN "fair"
  ELSE "needs improvement"

\* lines 42-55
deviation_to_harmony(dev) ==
  IF ~Exact(dev) THEN Described("deviation_to_harmony", dev)
  ELSE IF ~Greater(dev, 1, 20) THEN "perfect golden ratio alignment"
  ELSE IF ~Greater(dev, 3, 20) THEN "excellent harmony"
  ELSE IF ~Greater(dev, 1, 4) THEN "good harmony"
  ELSE IF ~Greater(dev, 2, 5) THEN "moderate harmony"
  ELSE IF ~Greater(dev, 3, 5) THEN "some deviation from ideal"
  ELSE "significant variation from golden ratio"

\* lines 58-89: the angle is held as the arguments of arccos or atan2, so
\* the text is held as the feature's description of that angle
angle_to_description(angle, feature) == Described(feature, angle)

\* ------------------------------------------------- GoldenInterpreter
\* __init__, lines 95-104
NewInsights ==
  [ summary |-> <<>>, facial_harmony |-> <<>>, prominent_features |-> <<>>,
    proportions |-> <<>>, symmetry |-> <<>>, golden_ratio_alignment |-> <<>>,
    distinctive_characteristics |-> <<>>, overall_assessment |-> <<>> ]

\* _safe_get(*keys, default), lines 119-127, from the mapping current; every
\* value on a path the interpreter follows is a mapping
RECURSIVE _safe_get(_, _, _)
_safe_get(current, keys, default) ==
  IF keys = <<>> THEN current
  ELSE IF Head(keys) \in DOMAIN current
       THEN _safe_get(current[Head(keys)], Tail(keys), default)
       ELSE default

\* the dict {'score', 'interpretation', 'meaning'} of lines 136-140, 146-150
Balance(value, meaning) ==
  [ score |-> Percent(value),
    interpretation |-> percentage_to_description(value),
    meaning |-> meaning ]

\* lines 129-157
_analyze_facial_harmony(data, ins) ==
  LET thirds ==
        _safe_get(data, <<"golden_diagnostics", "thirds_evenness", "value">>, None)
      fifths ==
        _safe_get(data, <<"golden_diagnostics", "fifths_evenness", "value">>, None)
      harmony_scores ==
        (IF IsNone(thirds) THEN <<>> ELSE <<thirds>>)
        \o (IF IsNone(fifths) THEN <<>> ELSE <<fifths>>)
      avg_harmony == Mean(harmony_scores)
  IN  [ ins EXCEPT
          !.facial_harmony =
             Entry(~IsNone(fifths), "horizontal_balance",
                   Balance(fifths, "How evenly the face divides into five equal vertical sections"))
             @@ Entry(~IsNone(thirds), "vertical_balance",
                      Balance(thirds, "How evenly the face divides into upper, middle, and lower thirds"))
             @@ @,
          !.summary =
             IF harmony_scores /= <<>>
             THEN ("facial_harmony_score" :> Percent(avg_harmony))
                  @@ ("harmony_level" :> percentage_to_description(avg_harmony))
                  @@ @
             ELSE @ ]

SideName(side) == IF side = "L" THEN "left" ELSE "right"

\* the entries of lines 167-181 for one side
EyeShape(data, side) ==
  LET tilt == _safe_get(data, <<"eyes", "canthal_tilt_deg_" \o side, "value">>, None)
      fissure == _safe_get(data, <<"eyes", "fissure_length_" \o side, "value">>, None)
  IN  Entry(~IsNone(tilt), SideName(side) \o "_eye_tilt",
            angle_to_description(tilt, "canthal_tilt"))
      @@ Entry(~IsNone(fissure), SideName(side) \o "_eye_size",
               Falling("eye_size", fissure, <<3, 5>>, "large", <<2, 5>>, "medium",
                       "petite"))

\* the entries of lines 196-216 for one side
BrowShape(data, side) ==
  LET brow_height == _safe_get(data, <<"eyes", "brow_height_" \o side, "value">>, None)
      brow_slope == _safe_get(data, <<"eyes", "brow_slope_" \o side, "value">>, None)
  IN  Entry(~IsNone(brow_height), SideName(side) \o "_brow_position",
            Falling("brow_position", brow_height, <<3, 5>>, "high",
                    <<2, 5>>, "medium", "low"))
      @@ Entry(~IsNone(brow_slope), SideName(side) \o "_brow_shape",
               Described("brow_shape", brow_slope))

\* lines 159-220
_analyze_eyes(data, ins) ==
  LET eyes_data == _safe_get(data, <<"eyes">>, <<>>)
      first == _safe_get(data, <<"eyes", "intercanthal_over_eye_width", "value">>, None)
      intercanthal ==
        IF IsNone(first)
        THEN _safe_get(data, <<"eyes", "intercanthal_over_IPD", "value">>, None)
        ELSE first
      eye_features ==
        EyeShape(data, "L") @@ EyeShape(data, "R")
        @@ Entry(~IsNone(intercanthal), "eye_spacing",
                 Banded("eye_spacing", intercanthal, <<7, 25>>, <<7, 20>>,
                        "ideally spaced", "close-set", "wide-set"))
        @@ BrowShape(data, "L") @@ BrowShape(data, "R")
  IN  IF eyes_data = <<>> \/ eye_features = <<>> THEN ins
      ELSE [ins EXCEPT !.prominent_features = ("eyes" :> eye_features) @@ @]

\* lines 222-269
_analyze_nose(data, ins) ==
  LET nose_data == _safe_get(data, <<"nose">>, <<>>)
      first == _safe_get(data, <<"nose", "alar_width_over_inter_eye", "value">>, None)
      alar_width ==
        IF IsNone(first)
        THEN _safe_get(data, <<"nose", "alar_width_over_IPD", "value">>, None)
        ELSE first
      nasal_length ==
        _safe_get(data, <<"nose", "nasal_length_over_face_height", "value">>, None)
      tip_projection ==
        _safe_get(data, <<"nose", "tip_projection_3D_over_IPD", "value">>, None)
      nasolabial ==
        _safe_get(data, <<"nose", "nasal_tip_to_upper_lip_angle_deg", "value">>, None)
      nose_features ==
        Entry(~IsNone(alar_width), "width",
              Rising("width", alar_width, <<13, 10>>, "narrow", <<3, 2>>, "medium",
                     "wide"))
        @@ Entry(~IsNone(nasal_length), "length",
                 Rising("length", nasal_length, <<43, 100>>, "short",
                        <<47, 100>>, "proportionate", "long"))
        @@ Entry(~IsNone(tip_projection), "projection",
                 Rising("projection", tip_projection, <<1, 4>>, "low profile",
                        <<7, 20>>, "moderate projection", "prominent"))
        @@ Entry(~IsNone(nasolabial), "tip_angle",
                 angle_to_description(nasolabial, "nasolabial"))
  IN  IF nose_data = <<>> \/ nose_features = <<>> THEN ins
      ELSE [ins EXCEPT !.prominent_features = ("nose" :> nose_features) @@ @]

\* lines 271-320
_analyze_mouth(data, ins) ==
  LET mouth_data == _safe_get(data, <<"mouth">>, <<>>)
      mouth_width == _safe_get(data, <<"mouth", "mouth_width_over_IPD", "value">>, None)
      lip_ratio == _safe_get(data, <<"mouth", "upper_to_lower_lip_ratio", "value">>, None)
      smile_arc == _safe_get(data, <<"mouth", "smile_arc_curvature", "value">>, None)
      cupid_bow == _safe_get(data, <<"mouth", "cupid_bow_depth", "value">>, None)
      mouth_features ==
        Entry(~IsNone(mouth_width), "width",
              Rising("width", mouth_width, <<7, 5>>, "small", <<8, 5>>, "medium",
                     "full"))
        @@ Entry(~IsNone(lip_ratio), "lip_balance",
                 Banded("lip_balance", lip_ratio, <<9, 10>>, <<11, 10>>,
                        "balanced", "fuller lower lip", "fuller upper lip"))
        @@ Entry(~IsNone(smile_arc), "smile_type",
                 Rising("smile_type", smile_arc, <<50, 1>>, "subtle",
                        <<150, 1>>, "gentle curve", "pronounced curve"))
        @@ Entry(~IsNone(cupid_bow), "cupids_bow",
                 Rising("cupids_bow", cupid_bow, <<1, 5>>, "subtle",
                        <<2, 5>>, "defined", "pronounced"))
  IN  IF mouth_data = <<>> \/ mouth_features = <<>> THEN ins
      ELSE [ins EXCEPT !.prominent_features = ("mouth" :> mouth_features) @@ @]

\* lines 333-341
OverallShape(height_over_width) ==
  IF ~Exact(height_over_width) THEN Described("overall_shape", height_over_width)
  ELSE IF Less(height_over_width, 13, 10) THEN "round or square"
  ELSE IF Less(height_over_width, 3, 2) THEN "oval"
  ELSE IF Less(height_over_width, 17, 10) THEN "oblong"
  ELSE "long"

\* lines 362-371
VerticalProportions(upper_third, lower_third) ==
  IF ~Exact(upper_third) \/ ~Exact(lower_third)
  THEN Described("vertical_proportions", <<upper_third, lower_third>>)
  ELSE IF /\ ~Less(upper_third, 9, 10) /\ ~Greater(upper_third, 11, 10)
          /\ ~Less(lower_third, 9, 10) /\ ~Greater(lower_third, 11, 10)
  THEN "ideally balanced thirds"
  ELSE IF Less(upper_third, 9, 10) THEN "shorter forehead"
  ELSE IF Greater(lower_third, 11, 10) THEN "longer lower face"
  ELSE "unique proportions"

\* lines 322-373
_analyze_face_shape(data, ins) ==
  LET structure_data == _safe_get(data, <<"structure">>, <<>>)
      height_over_width ==
        _safe_get(data, <<"structure", "face_height_over_width", "value">>, None)
      mandibular == _safe_get(data, <<"structure", "mandibular_angle_deg", "value">>, None)
      chin == _safe_get(data, <<"structure", "chin_prominence_3D", "value">>, None)
      upper_third ==
        _safe_get(data, <<"structure", "upper_to_middle_third", "value">>, None)
      lower_third ==
        _safe_get(data, <<"structure", "lower_to_middle_third", "value">>, None)
      face_shape ==
        Entry(~IsNone(height_over_width), "overall_shape",
              OverallShape(height_over_width))
        @@ Entry(~IsNone(mandibular), "jawline",
                 angle_to_description(mandibular, "mandibular"))
        @@ Entry(~IsNone(chin), "chin",
                 Rising("chin", chin, <<1, 5>>, "recessed", <<7, 20>>, "balanced",
                        "prominent"))
        @@ Entry(~IsNone(upper_third) /\ ~IsNone(lower_third),
                 "vertical_proportions",
                 VerticalProportions(upper_third, lower_third))
  IN  IF structure_data = <<>> \/ face_shape = <<>> THEN ins
      ELSE [ins EXCEPT !.proportions = ("face_shape" :> face_shape) @@ @]

\* name.replace('_', ' ') for the names of the bilateral pairs
Spaced ==
  [ L_eye_outer |-> "L eye outer", R_eye_outer |-> "R eye outer",
    L_eye_inner |-> "L eye inner", R_eye_inner |-> "R eye inner",
    L_brow_inner |-> "L brow inner", R_brow_inner |-> "R brow inner",
    L_brow_outer |-> "L brow outer", R_brow_outer |-> "R brow outer",
    alare_L |-> "alare L", alare_R |-> "alare R",
    cheilion_L |-> "cheilion L", cheilion_R |-> "cheilion R",
    gonion_L |-> "gonion L", gonion_R |-> "gonion R" ]
\* feature.replace('_vs_', ' vs ').replace('_', ' ') for the key of pair i
FeatureName(i) == Spaced[pairs[i][1]] \o " vs " \o Spaced[pairs[i][2]]

\* lines 398-402: the names of the first i pairs (the order of the keys of
\* the mapping) whose delta exceeds 0.5
RECURSIVE Asymmetries(_, _)
Asymmetries(deltas, i) ==
  IF i = 0 THEN <<>>
  ELSE Asymmetries(deltas, i - 1)
       \o (IF PairKey(i) \in DOMAIN deltas /\ Greater(deltas[PairKey(i)], 1, 2)
           THEN <<FeatureName(i)>> ELSE <<>>)

\* lines 375-410
_analyze_symmetry(data, ins) ==
  LET symmetry_data == _safe_get(data, <<"symmetry">>, <<>>)
      score == _safe_get(data, <<"symmetry", "midline_symmetry_score", "value">>, None)
      symmetry_score ==
        IF Less(score, 0, 1) THEN Rat(0, 1)
        ELSE IF Greater(score, 1, 1) THEN Rat(1, 1) ELSE score
      deltas == _safe_get(data, <<"symmetry", "bilateral_feature_deltas">>, <<>>)
      asymmetries == Asymmetries(deltas, Len(pairs))
      symmetry_analysis ==
        (IF IsNone(score) THEN <<>>
         ELSE [ overall_score |-> Percent(symmetry_score),
                level |-> percentage_to_description(symmetry_score) ])
        @@ Entry(deltas /= <<>>, "notable_asymmetries",
                 IF Len(asymmetries) > 0
                 THEN SubSeq(asymmetries, 1,
                             IF Len(asymmetries) < 3 THEN Len(asymmetries) ELSE 3)
                 ELSE <<"highly symmetric features">>)
  IN  IF symmetry_data = <<>> \/ symmetry_analysis = <<>> THEN ins
      ELSE [ins EXCEPT !.symmetry = symmetry_analysis]

\* the (name, cleaned name) of the phi deviations in the order golden.py
\* inserts them
PhiNames ==
  << <<"eye_to_mouth_width_phi_deviation", "eye to mouth width">>,
     <<"face_height_to_width_phi_deviation", "face height to width">>,
     <<"nose_mouth_to_mouth_chin_phi_deviation", "nose mouth to mouth chin">> >>

\* lines 423-435: the alignment entries of the first i names
RECURSIVE Alignments(_, _)
Alignments(phi_deviations, i) ==
  IF i = 0 THEN <<>>
  ELSE Alignments(phi_deviations, i - 1)
       \o (IF PhiNames[i][1] \in DOMAIN phi_deviations
              /\ "value" \in DOMAIN phi_deviations[PhiNames[i][1]]
           THEN << [ feature |-> PhiNames[i][2],
                     alignment |->
                       deviation_to_harmony(phi_deviations[PhiNames[i][1]].value),
                     deviation |-> Percent(phi_deviations[PhiNames[i][1]].value) ] >>
           ELSE <<>>)

\* lines 412-446; the sort by the printed deviation and the mean of the
\* printed deviations are held as the entries they are computed from
_analyze_golden_ratios(data, ins) ==
  LET phi_deviations ==
        _safe_get(data, <<"golden_diagnostics", "phi_deviations">>, <<>>)
      alignments == Alignments(phi_deviations, Len(PhiNames))
      sorted == [k |-> "sorted_by_deviation", v |-> alignments]
      avg_deviation ==
        Mean([i \in DOMAIN alignments |-> alignments[i].deviation])
      golden_analysis ==
        IF Len(alignments) > 0
        THEN [ best_alignment |-> [k |-> "first", v |-> sorted],
               all_alignments |-> sorted,
               overall_harmony |-> deviation_to_harmony(avg_deviation) ]
        ELSE <<>>
  IN  IF phi_deviations = <<>> THEN ins
      ELSE [ins EXCEPT !.golden_ratio_alignment = golden_analysis]

\* 'if text:' for what _safe_get returned
Truthy(v) == ~IsNone(v)

\* lines 448-495; a text is the sequence of the clauses joined by '. ', a
\* clause the sequence of its pieces, and '' the empty sequence
_generate_overall_assessment(data, ins) ==
  LET harmony == DictGetDefault(ins.summary, "harmony_level", None)
      shape == _safe_get(data, <<"proportions", "face_shape", "overall_shape">>, None)
      eye_spacing ==
        _safe_get(data, <<"prominent_features", "eyes", "eye_spacing">>, None)
      jawline == _safe_get(data, <<"proportions", "face_shape", "jawline">>, None)
      golden_harmony ==
        _safe_get(data, <<"golden_ratio_alignment", "overall_harmony">>, None)
      symmetry_level == _safe_get(data, <<"symmetry", "level">>, None)
      assessments ==
        (IF "harmony_level" \in DOMAIN ins.summary
         THEN << <<"Facial harmony: ", harmony>> >> ELSE <<>>)
        \o (IF Truthy(golden_harmony)
            THEN << <<"Golden ratio: ", golden_harmony>> >> ELSE <<>>)
        \o (IF Truthy(symmetry_level)
            THEN << <<"Symmetry: ", symmetry_level>> >> ELSE <<>>)
      distinctive ==
        (IF Truthy(shape) THEN << <<shape, " face shape">> >> ELSE <<>>)
        \o (IF Truthy(eye_spacing) THEN << <<eye_spacing, " eyes">> >> ELSE <<>>)
        \o (IF Truthy(jawline) THEN << <<jawline>> >> ELSE <<>>)
  IN  ("interpretation_note" :> "This analysis examines facial proportions")
      @@ [ ins EXCEPT
             !.overall_assessment = IF Len(assessments) > 0 THEN assessments ELSE @,
             !.distinctive_characteristics =
                IF Len(distinctive) > 0 THEN distinctive ELSE @ ]

\* ------------------------------------------------- the files
\* a .landmark file: its name, whether json.load reads it, and the
\* landmarks and blendshapes process_landmark_file extracts from it
LandmarkFile(name, lms, bs) ==
  [name |-> name, json |-> TRUE, landmarks |-> lms, blendshapes |-> bs]
Unreadable(name) ==
  [name |-> name, json |-> FALSE, landmarks |-> <<>>, blendshapes |-> Absent]
\* a .golden.json file: its name, whether json.load reads it, and its data
GoldenFile(path, data) == [path |-> path, json |-> TRUE, data |-> data]
Truncated(path) == [path |-> path, json |-> FALSE, data |-> <<>>]

FileFaces == {BaseFace, Face("tilted"), EdgeFace}
FileLows ==
  {<<>>} \cup { [a \in {b} |-> 10] :
                  b \in {"L_eye_outer", "chin_tip", "L_brow_inner"} }
Frame(face) == MakeLandmarks(478, FALLBACK_INDICES, face, {}, <<>>, "visibility")
\* directories of one .landmark file
SingleFiles ==
  { LandmarkFile("face",
                 MakeLandmarks(n, FALLBACK_INDICES, f, c, l, "visibility"), Absent) :
      n \in {0, 478}, f \in FileFaces, c \in Collapses, l \in FileLows }
\* the .landmark files of the directories of several files
BatchFiles ==
  { LandmarkFile("plain", Frame(BaseFace), Absent),
    LandmarkFile("edge", Frame(EdgeFace),
                 Given(<< [mapping |-> TRUE, category_name |-> "jawOpen",
                           score |-> 50] >>)),
    LandmarkFile("copy", Frame(BaseFace), Absent),
    LandmarkFile("flat", DropZ(Frame(BaseFace), 3), Absent),
    Unreadable("unread") }
\* the .golden.json files in the directory before golden.py runs
ForeignFiles ==
  { <<>>, <<Truncated("truncated.golden.json")>>,
    <<GoldenFile("summary.golden.json", [total_files |-> 0])>> }
\* 'summary' in f.name
SummaryInName(path) == path = "summary.golden.json"

\* the sequences of at most k distinct elements of S
RECURSIVE Arrangements(_, _)
Arrangements(S, k) ==
  IF k = 0 THEN {<<>>}
  ELSE LET shorter == Arrangements(S, k - 1)
       IN  shorter
           \cup UNION { {Append(s, x) : x \in S \ Range(s)} : s \in shorter }

\* ------------------- the machine of golden.py's main and golden.final.py
\* golden.py lines 838-843 with the files of the directory in any order,
\* or golden.final.py started on a directory that does not exist
FinalInit ==
  /\ landmarks = <<>> /\ blendshapes = Absent /\ index_map = Absent
  /\ self = NewSelf
  /\ eyes = <<>> /\ nose = <<>> /\ mouth = <<>> /\ structure = <<>>
  /\ symmetry = <<>> /\ profile = <<>> /\ golden = <<>>
  /\ blendshape_summary = <<>>
  /\ raised = ""
  /\ result = <<>>
  /\ ratio = None /\ deviation = None
  /\ \/ /\ pc = "no_directory"
        /\ landmark_files = <<>> /\ golden_files = <<>>
     \/ /\ pc = "landmark_files"
        /\ \/ landmark_files \in {<<f>> : f \in SingleFiles} /\ golden_files = <<>>
           \/ /\ landmark_files \in Arrangements(BatchFiles, MaxFiles)
              /\ golden_files \in ForeignFiles
  /\ golden_data = None /\ insights = None
  /\ results = <<>> /\ summary = None

\* process_landmark_file, lines 741-759: the call of analyze_face_ratios
\* without an index map
OpenLandmarkFile ==
  /\ pc = "landmark_files" /\ Len(landmark_files) > 0
  /\ Head(landmark_files).json
  /\ landmarks' = Head(landmark_files).landmarks
  /\ blendshapes' = Head(landmark_files).blendshapes
  /\ index_map' = Absent
  /\ self' = NewSelf
  /\ eyes' = <<>> /\ nose' = <<>> /\ mouth' = <<>> /\ structure' = <<>>
  /\ symmetry' = <<>> /\ profile' = <<>> /\ golden' = <<>>
  /\ blendshape_summary' = <<>>
  /\ raised' = "" /\ result' = <<>>
  /\ pc' = "call"
  /\ UNCHANGED <<ratio, deviation, interpretation>>

\* process_landmark_file, lines 760-762, and process_landmarks_directory,
\* lines 789-794: the result, with the name of its source, is saved
SaveGoldenFile ==
  /\ pc = "done" /\ Len(landmark_files) > 0
  /\ golden_files' =
       Append(golden_files,
              GoldenFile(Head(landmark_files).name \o ".golden.json",
                         ("source_file" :> Head(landmark_files).name \o ".landmark")
                         @@ result))
  /\ landmark_files' = Tail(landmark_files)
  /\ pc' = "landmark_files"
  /\ UNCHANGED <<args, self, regions, raised, result, ratio, deviation,
                 golden_data, insights, results, summary>>

\* process_landmark_file, lines 763-768, and process_landmarks_directory,
\* lines 789-794: the file cannot be read and the failure is saved
FailLandmarkFile ==
  /\ pc = "landmark_files" /\ Len(landmark_files) > 0
  /\ ~Head(landmark_files).json
  /\ golden_files' =
       Append(golden_files,
              GoldenFile(Head(landmark_files).name \o ".golden.json",
                         [ source_file |-> Head(landmark_files).name \o ".landmark",
                           error |-> "Expecting value", status |-> "failed" ]))
  /\ landmark_files' = Tail(landmark_files)
  /\ UNCHANGED <<args, self, regions, raised, result, ratio, deviation, pc,
                 golden_data, insights, results, summary>>

engine ==
  <<args, self, regions, raised, result, ratio, deviation, landmark_files>>

\* golden.py lines 846-851: golden.final.py is run on the directory
RunInterpreter ==
  /\ pc = "landmark_files" /\ Len(landmark_files) = 0
  /\ pc' = "glob"
  /\ UNCHANGED <<engine, golden_files, golden_data, insights, results, summary>>

NotSummary(f) == ~SummaryInName(f.path)

\* process_all_golden_files, lines 535-552: the early returns and the list
\* of the files without the summary file
ListGoldenFiles ==
  /\ pc \in {"glob", "no_directory"}
  /\ LET kept == SelectSeq(golden_files, NotSummary)
     IN  IF pc = "no_directory" \/ Len(kept) = 0
         THEN pc' = "returned" /\ UNCHANGED golden_files
         ELSE pc' = "loop" /\ golden_files' = kept
  /\ UNCHANGED <<engine, golden_data, insights, results, summary>>

\* process_golden_file, lines 500-511 and 526-531, and lines 557-565 of the
\* loop: a file that is not interpreted
SkipGoldenFile ==
  /\ pc = "loop" /\ Len(golden_files) > 0
  /\ LET f == Head(golden_files)
     IN  /\ ~f.json \/ "error" \in DOMAIN f.data
         /\ results' =
              Append(results,
                     IF ~f.json
                     THEN [ source_file |-> f.path, status |-> "failed",
                            error |-> "Expecting value" ]
                     ELSE [ source_file |-> f.path, status |-> "skipped",
                            reason |-> DictGetDefault(f.data, "error", "Unknown error") ])
  /\ golden_files' = Tail(golden_files)
  /\ UNCHANGED <<engine, pc, golden_data, insights, summary>>

\* process_golden_file, lines 500-514: GoldenInterpreter(golden_data)
LoadGoldenFile ==
  /\ pc = "loop" /\ Len(golden_files) > 0
  /\ LET f == Head(golden_files)
     IN  /\ f.json /\ "error" \notin DOMAIN f.data
         /\ golden_data' = f.data
  /\ insights' = NewInsights
  /\ pc' = "_analyze_facial_harmony"
  /\ UNCHANGED <<engine, golden_files, results, summary>>

\* interpret, lines 106-117, one stage at a time
InterpretFacialHarmony ==
  /\ pc = "_analyze_facial_harmony"
  /\ insights' = _analyze_facial_harmony(golden_data, insights)
  /\ pc' = "_analyze_eyes"
  /\ UNCHANGED <<engine, golden_files, golden_data, results, summary>>

InterpretEyes ==
  /\ pc = "_analyze_eyes"
  /\ insights' = _analyze_eyes(golden_data, insights)
  /\ pc' = "_analyze_nose"
  /\ UNCHANGED <<engine, golden_files, golden_data, results, summary>>

InterpretNose ==
  /\ pc = "_analyze_nose"
  /\ insights' = _analyze_nose(golden_data, insights)
  /\ pc' = "_analyze_mouth"
  /\ UNCHANGED <<engine, golden_files, golden_data, results, summary>>

InterpretMouth ==
  /\ pc = "_analyze_mouth"
  /\ insights' = _analyze_mouth(golden_data, insights)
  /\ pc' = "_analyze_face_shape"
  /\ UNCHANGED <<engine, golden_files, golden_data, results, summary>>

InterpretFaceShape ==
  /\ pc = "_analyze_face_shape"
  /\ insights' = _analyze_face_shape(golden_data, insights)
  /\ pc' = "_analyze_symmetry"
  /\ UNCHANGED <<engine, golden_files, golden_data, results, summary>>

InterpretSymmetry ==
  /\ pc = "_analyze_symmetry"
  /\ insights' = _analyze_symmetry(golden_data, insights)
  /\ pc' = "_analyze_golden_ratios"
  /\ UNCHANGED <<engine, golden_files, golden_data, results, summary>>

InterpretGoldenRatios ==
  /\ pc = "_analyze_golden_ratios"
  /\ insights' = _analyze_golden_ratios(golden_data, insights)
  /\ pc' = "_generate_overall_assessment"
  /\ UNCHANGED <<engine, golden_files, golden_data, results, summary>>

GenerateOverallAssessment ==
  /\ pc = "_generate_overall_assessment"
  /\ insights' = _generate_overall_assessment(golden_data, insights)
  /\ pc' = "interpreted"
  /\ UNCHANGED <<engine, golden_files, golden_data, results, summary>>

\* process_golden_file, lines 517-524, and line 565 of the loop
AddMetadata ==
  /\ pc = "interpreted"
  /\ results' =
       Append(results,
              ("metadata" :>
                 [ source_golden_file |-> Head(golden_files).path,
                   original_landmark_file |->
                     DictGetDefault(golden_data, "source_file", "unknown"),
                   analysis_version |-> "1.0" ])
              @@ insights)
  /\ golden_files' = Tail(golden_files)
  /\ pc' = "loop"
  /\ UNCHANGED <<engine, golden_data, insights, summary>>

\* 'error' not in r and r.get('status') != 'failed'
Counted(r) ==
  "error" \notin DOMAIN r /\ ~("status" \in DOMAIN r /\ r.status = "failed")

\* lines 581-586: the summary entry of a counted result
SummaryEntry(r) ==
  [ file |-> DictGetDefault(DictGetDefault(r, "metadata", <<>>),
                            "original_landmark_file", "unknown"),
    overall_assessment |->
      DictGetDefault(r, "overall_assessment", << <<"No assessment">> >>),
    harmony_score |->
      DictGetDefault(DictGetDefault(r, "summary", <<>>),
                     "facial_harmony_score", "N/A"),
    distinctive_features |-> DictGetDefault(r, "distinctive_characteristics", <<>>) ]

\* process_all_golden_files, lines 572-591
Summarise ==
  /\ pc = "loop" /\ Len(golden_files) = 0
  /\ summary' =
       [ total_analyzed |-> Len(results),
         successful |-> Cardinality({i \in DOMAIN results : Counted(results[i])}),
         interpretation_summaries |->
           LET kept == SelectSeq(results, Counted)
           IN  [i \in DOMAIN kept |-> SummaryEntry(kept[i])] ]
  /\ pc' = "saved"
  /\ UNCHANGED <<engine, golden_files, golden_data, insights, results>>

FinalNext ==
  \/ OpenLandmarkFile
  \/ Construct
  \/ RollCorrection
  \/ ScaleBasis
  \/ AnalyzeEyes
  \/ AnalyzeNose
  \/ AnalyzeMouth
  \/ AnalyzeStructure
  \/ AnalyzeSymmetry
  \/ AnalyzeProfile
  \/ AnalyzeGoldenDiagnostics
  \/ AnalyzeBlendshapes
  \/ Return
  \/ Except
  \/ SaveGoldenFile
  \/ FailLandmarkFile
  \/ RunInterpreter
  \/ ListGoldenFiles
  \/ SkipGoldenFile
  \/ LoadGoldenFile
  \/ InterpretFacialHarmony
  \/ InterpretEyes
  \/ InterpretNose
  \/ InterpretMouth
  \/ InterpretFaceShape
  \/ InterpretSymmetry
  \/ InterpretGoldenRatios
  \/ GenerateOverallAssessment
  \/ AddMetadata
  \/ Summarise

FinalSpec == FinalInit /\ [][FinalNext]_vars

\* ------------------------------------------- properties of the interpreter
\* interpret() has returned for the file at the head of the list
Interpreted == pc = "interpreted"
\* the deltas the interpreter reads from the golden file
Deltas == _safe_get(golden_data, <<"symmetry", "bilateral_feature_deltas">>, <<>>)
\* the pairs of the golden file whose delta exceeds 0.5
Exceeding == {i \in DOMAIN pairs : PairKey(i) \in DOMAIN Deltas /\ Greater(Deltas[PairKey(i)], 1, 2)}

\* C22 as stated: every pair of symmetry.bilateral_feature_deltas whose
\* delta exceeds 0.5 is reported in notable_asymmetries, however many such
\* pairs there are (up to all seven).
C22_AllAsymmetriesReported ==
  Interpreted =>
    \A i \in Exceeding :
      /\ "notable_asymmetries" \in DOMAIN insights.symmetry
      /\ FeatureName(i) \in Range(insights.symmetry.notable_asymmetries)

\* the results of the files interpret() ran on
InterpretedResults == {i \in DOMAIN results : "metadata" \in DOMAIN results[i]}
\* the results of the files skipped for their 'error' key
SkippedResults ==
  {i \in DOMAIN results :
     "status" \in DOMAIN results[i] /\ results[i].status = "skipped"}

\* C29 as stated: a golden file that holds an error envelope is skipped: it
\* is not counted in summary['successful'] and adds no entry to
\* interpretation_summaries, so successful equals the number of files that
\* were actually interpreted.
C29_SkippedNotCounted ==
  pc = "saved" =>
    /\ summary.successful = Cardinality(InterpretedResults)
    /\ Len(summary.interpretation_summaries) = Cardinality(InterpretedResults)

\* the text holds a clause that starts with the label
HasClause(text, label) == \E i \in DOMAIN text : text[i][1] = label
\* the list of characteristics holds an entry of n pieces ending in suffix
HasCharacteristic(list, n, suffix) ==
  \E i \in DOMAIN list : Len(list[i]) = n /\ (n = 2 => list[i][2] = suffix)
\* C30 as stated: after interpret() the overall assessment reflects the
\* insights of the earlier stages: a set symmetry level gives a 'Symmetry:'
\* clause, a set overall_harmony a 'Golden ratio:' clause, and a set face
\* shape, eye spacing or jawline appears in distinctive_characteristics.
C30_AssessmentReflectsInsights ==
  Interpreted =>
    /\ "level" \in DOMAIN insights.symmetry
         => HasClause(insights.overall_assessment, "Symmetry: ")
    /\ "overall_harmony" \in DOMAIN insights.golden_ratio_alignment
         => HasClause(insights.overall_assessment, "Golden ratio: ")
    /\ "overall_shape" \in DOMAIN _safe_get(insights, <<"proportions", "face_shape">>, <<>>)
         => HasCharacteristic(insights.distinctive_characteristics, 2, " face shape")
    /\ "eye_spacing" \in DOMAIN _safe_get(insights, <<"prominent_features", "eyes">>, <<>>)
         => HasCharacteristic(insights.distinctive_characteristics, 2, " eyes")
    /\ "jawline" \in DOMAIN _safe_get(insights, <<"proportions", "face_shape">>, <<>>)
         => HasCharacteristic(insights.distinctive_characteristics, 1, "")

\* ------------------------------------------------ properties of the calls
\* the statements of one call of analyze_face_ratios
CallSteps ==
  { "call", "roll", "scale", "eyes", "nose", "mouth", "structure", "symmetry",
    "profile", "golden", "blendshapes", "pose", "except", "done" }
\* the golden file was saved for a .landmark file of a directory of
\* several files
FromBatch(g) == \E f \in BatchFiles : f.name \o ".golden.json" = g.path
SourceOf(g) == CHOOSE f \in BatchFiles : f.name \o ".golden.json" = g.path
\* the data of a golden file without the name of its source
Analysis(g) == [k \in DOMAIN g.data \ {"source_file"} |-> g.data[k]]
\* the position of the golden file of that name, 0 when there is none
Saved(path) ==
  IF \E i \in DOMAIN golden_files : golden_files[i].path = path
  THEN CHOOSE i \in DOMAIN golden_files : golden_files[i].path = path
  ELSE 0

\* C23: determinism and statelessness: what a call returns is a function
\* of its arguments alone, so two calls on identical input return identical
\* output whatever calls were made before or between them; no call changes
\* the caller's landmark list or the compiled-in index map it reads.
C23_Deterministic ==
  /\ pc \in CallSteps =>
       /\ landmarks = Head(landmark_files).landmarks
       /\ blendshapes = Head(landmark_files).blendshapes
       /\ index_map = Absent
  /\ pc \in CallSteps \ {"call", "except", "done"} =>
       self.index_map = FALLBACK_INDICES
  /\ pc = "done" =>
       result = analyze_face_ratios(landmarks, blendshapes, index_map)
  /\ \A i, j \in DOMAIN golden_files :
       /\ FromBatch(golden_files[i]) /\ FromBatch(golden_files[j])
       /\ SourceOf(golden_files[i]).json /\ SourceOf(golden_files[j]).json
       /\ SourceOf(golden_files[i]).landmarks = SourceOf(golden_files[j]).landmarks
       /\ SourceOf(golden_files[i]).blendshapes = SourceOf(golden_files[j]).blendshapes
       => Analysis(golden_files[i]) = Analysis(golden_files[j])

\* two calls on the same landmarks with a call on another face between
\* them: the first and the third analysis are equal, the second differs
C23_Witness ==
  /\ pc = "landmark_files" /\ Len(landmark_files) = 0
  /\ 0 < Saved("plain.golden.json")
  /\ Saved("plain.golden.json") < Saved("edge.golden.json")
  /\ Saved("edge.golden.json") < Saved("copy.golden.json")
  /\ Analysis(golden_files[Saved("plain.golden.json")])
       = Analysis(golden_files[Saved("copy.golden.json")])
  /\ Analysis(golden_files[Saved("plain.golden.json")])
       /= Analysis(golden_files[Saved("edge.golden.json")])
  /\ "eyes" \in DOMAIN golden_files[Saved("plain.golden.json")].data

\* the override map with every name it lacks sent outside the array, where
\* a lookup finds nothing
Sealed(map) ==
  [ a \in Names |->
      IF a \in DOMAIN map THEN map[a] ELSE CHOOSE f \in FarIndices : TRUE ]
\* the caller passed an override map that names at least one point
Overridden == index_map.given /\ DOMAIN index_map.v /= {}

\* C24 as stated: with an override index map every landmark lookup of the
\* analysis (roll correction, scale basis, analyzers, pose) goes through the
\* caller's map only: a name absent from it is unavailable everywhere, so
\* the result is the one of the same map with the absent names pointing
\* outside the array, and no index of the compiled-in table is used.
C24_OverrideOnly ==
  pc = "done" /\ Overridden =>
    result = analyze_face_ratios(landmarks, blendshapes, Given(Sealed(index_map.v)))

\* ------------------------------------ calls with negative indices in the map
\* override maps that send one name to a negative index: the last
\* landmark counted from the end, the first, and one before the first; the
\* four names the scale is measured between keep their indices, so that the
\* scale stays an exact length
NegativeCalls ==
  { << lms, Absent, Given([CompactMap EXCEPT ![b] = k]) >> :
       lms \in {Plain, DropZ(Plain, 3)},
       b \in Names \ {"L_eye_outer", "R_eye_outer", "L_cheek", "R_cheek"},
       k \in {-1, -Len(NameSeq), -Len(NameSeq) - 1} }

NegativeInit ==
  /\ \E call \in NegativeCalls :
       /\ landmarks = call[1]
       /\ blendshapes = call[2]
       /\ index_map = call[3]
  /\ pc = "call"
  /\ self = NewSelf
  /\ eyes = <<>> /\ nose = <<>> /\ mouth = <<>> /\ structure = <<>>
  /\ symmetry = <<>> /\ profile = <<>> /\ golden = <<>>
  /\ blendshape_summary = <<>>
  /\ raised = ""
  /\ result = <<>>
  /\ ratio = None /\ deviation = None
  /\ landmark_files = <<>> /\ golden_files = <<>>
  /\ golden_data = None /\ insights = None
  /\ results = <<>> /\ summary = None

NegativeSpec == NegativeInit /\ [][Next]_vars

\* the analyzer of the call exists
Constructed == pc \notin {"call", "except"} /\ raised = ""

\* C25 as stated: _get_point returns a point only when the mapped index i
\* satisfies 0 <= i < n, and then the landmark at position i; a negative
\* index resolves as unavailable and never selects a landmark counted from
\* the end of the array.
C25_NoNegativeIndex ==
  Constructed =>
    \A P \in DOMAIN self.index_map :
      /\ _get_point(self, P) /= None =>
           /\ self.index_map[P] \in 0..(Len(self.points) - 1)
           /\ _get_point(self, P) = self.points[self.index_map[P] + 1]
      /\ self.index_map[P] < 0 => _get_point(self, P) = None

\* the outer-eye to outer-eye width of the analysis is zero
ZeroOuterEyeWidth ==
  /\ \A P \in Eyes4 : Available(P)
  /\ dist(_get_point(self, "L_eye_outer"), _get_point(self, "R_eye_outer"), "2D") = 0

\* C26 as stated: no division by a quantity below 1e-8: fifths_evenness is
\* omitted, not NaN or infinite, when the four canthus points are available
\* and the outer-eye to outer-eye width is zero, and a reported
\* fifths_evenness, brow_slope or pitch is finite.
C26_NoUnstableDivision ==
  ReturnedNormal =>
    /\ ZeroOuterEyeWidth => "fifths_evenness" \notin DOMAIN result.golden_diagnostics
    /\ "fifths_evenness" \in DOMAIN result.golden_diagnostics =>
         result.golden_diagnostics["fifths_evenness"].value \notin {NaN, NegInf}
    /\ \A side \in {"L", "R"} :
         ("brow_slope_" \o side) \in DOMAIN result.eyes =>
           result.eyes["brow_slope_" \o side].value.k = "slope_eps"
    /\ "pitch_deg" \in DOMAIN result.pose_estimation =>
         result.pose_estimation["pitch_deg"].k = "atan2_eps_deg"

\* the source_points of lower_to_middle_third are available and the middle
\* third it divides by is not degenerate
LowerThirdComputable ==
  /\ \A P \in {"subnasale", "chin_tip", "nasion"} : Available(P)
  /\ WidthOf("nasion", "subnasale") > 0

\* the source_points of brow_height of one side are available (it divides
\* by the scale basis, which is positive)
BrowHeightComputable(side) ==
  Available(side \o "_brow_inner") /\ Available(side \o "_eye_inner")

\* C27 as stated: a metric is present whenever every point of its
\* source_points is available and its denominator is not degenerate:
\* lower_to_middle_third and brow_height_L/R do not disappear because an
\* inner brow point or an outer brow point is unavailable.
C27_OmittedOnlyForStatedCauses ==
  ReturnedNormal =>
    /\ LowerThirdComputable => "lower_to_middle_third" \in DOMAIN result.structure
    /\ \A side \in {"L", "R"} :
         BrowHeightComputable(side) => ("brow_height_" \o side) \in DOMAIN result.eyes

\* the same landmarks with every z set to 0: an input that differs from
\* lms only in z values
ZeroDepth(lms) == [i \in DOMAIN lms |-> [lms[i] EXCEPT !.z = 0]]

\* C28 as stated: the value of every metric tagged method = "2D" depends
\* only on the x and y of its points: the input with every z replaced
\* yields the same value for each "2D" metric, including
\* nasal_tip_to_upper_lip_angle_deg and mandibular_angle_deg.
C28_PlanarMetricsIgnoreDepth ==
  (ReturnedNormal /\ WellFormedCall) =>
    LET flat == analyze_face_ratios(ZeroDepth(landmarks), blendshapes, index_map)
    IN  \A m \in MetricValues(result) :
          m[3].method = "2D" =>
            \E f \in MetricValues(flat) :
              f[1] = m[1] /\ f[2] = m[2] /\ f[3].value = m[3].value
====
